---- MODULE Spec2Model ----
(***************************************************************************)
(* A model of the smart-crawler: CrawlerEngine.crawl (the stand-alone      *)
(* engine, static and puppeteer mode) and SmartCrawler.execute (the n8n    *)
(* node).  A JavaScript string is a sequence of tokens, so that            *)
(* startsWith, trim, replace and URL resolution are computed and not       *)
(* assumed; a document is a sequence of nodes in document order, each with *)
(* its parent, the selectors it matches, its attributes and its own text.  *)
(***************************************************************************)
EXTENDS Integers, Sequences, FiniteSets, TLC

VARIABLES
    impl,        \* "engine": CrawlerEngine.crawl runs; "node": SmartCrawler.execute
    req,         \* the options of crawl / the node parameters
    down,        \* the URLs (page keys) whose transport fails
    calls,       \* the results returned by the calls of crawl that completed
    pc,          \* position of crawl / execute
    result,      \* CrawlerResult {success, data, errors}
    returnData,  \* execute: the output items assembled so far
    raised,      \* execute: the error thrown out of execute, if any
    itemIndex,   \* execute: index of the current input item (from 1)
    count,       \* number of list items to process
    i,           \* index of the current list item (from 1)
    fi,          \* index of the current top-level field (from 1)
    data,        \* the record under assembly
    stack,       \* the extractField activations, innermost last
    ret,         \* completion of the activation that just ended
    inflight,    \* the fetches started and not yet completed
    fetchLog,    \* every fetch issued, in order
    browsers     \* number of puppeteer browsers open

vars == <<impl, req, down, calls, pc, result, returnData, raised, itemIndex, count, i,
          fi, data, stack, ret, inflight, fetchLog, browsers>>

-----------------------------------------------------------------------------
(* JavaScript strings as token sequences *)

Undefined == [k |-> "undefined"]
Null == [k |-> "null"]
Str(s) == [k |-> "str", s |-> s]
Obj(ent) == [k |-> "obj", ent |-> ent]

\* JS truthiness of string | undefined | null
Truthy(v) == v.k = "str" /\ v.s # <<>>

startsWith(s, p) == Len(s) > 0 /\ Head(s) = p

RECURSIVE trimStart(_)
trimStart(s) == IF Len(s) > 0 /\ Head(s) = " " THEN trimStart(Tail(s)) ELSE s

RECURSIVE trimEnd(_)
trimEnd(s) ==
    IF Len(s) > 0 /\ s[Len(s)] = " " THEN trimEnd(SubSeq(s, 1, Len(s) - 1)) ELSE s

trim(s) == trimEnd(trimStart(s))

\* String.prototype.replace(pattern, by) with a string pattern: the first
\* occurrence of the token only
RECURSIVE replace(_, _, _)
replace(s, pat, by) ==
    IF s = <<>> THEN <<>>
    ELSE IF Head(s) = pat THEN by \o Tail(s)
    ELSE <<Head(s)>> \o replace(Tail(s), pat, by)

\* v || null for a string-or-undefined v
OrNull(v) == IF Truthy(v) THEN v ELSE Null

-----------------------------------------------------------------------------
(* Documents *)

N(parent, sels, attrs, text) ==
    [parent |-> parent, sels |-> sels, attrs |-> attrs, text |-> text]

NoAttrs == [a \in {} |-> <<>>]
A1(name, val) == [a \in {name} |-> val]
A2(n1, v1, n2, v2) == [a \in {n1, n2} |-> IF a = n1 THEN v1 ELSE v2]
A3(n1, v1, n2, v2, n3, v3) ==
    [a \in {n1, n2, n3} |-> IF a = n1 THEN v1 ELSE IF a = n2 THEN v2 ELSE v3]

Host == "h"
AbsUrl(path) == <<"http", Host, "/", path>>
RootRel(path) == <<"/", path>>

ListUrl == AbsUrl("list")

\* The pages the transport serves, by path.
Pages ==
    [ list |-> <<
        N(0, {"body"}, NoAttrs, <<>>),
        N(1, {".item", "div"}, NoAttrs, <<>>),
        N(2, {".card", "div"}, NoAttrs, <<>>),
        N(3, {".title"}, NoAttrs, <<" ", "tA", " ">>),
        N(3, {".link", "a"}, A1("href", RootRel("d1")), <<"more">>),
        N(1, {".item", "div"}, NoAttrs, <<>>),
        N(6, {".card", "div"}, NoAttrs, <<>>),
        N(7, {".title"}, NoAttrs, <<"tB">>),
        N(7, {".link", "a"}, A1("href", RootRel("d2")), <<>>),
        N(1, {".item", "div"}, NoAttrs, <<>>),
        N(10, {".card", "div"}, NoAttrs, <<>>),
        N(11, {".title"}, NoAttrs, <<"tC">>),
        N(11, {".link", "span"}, A1("data-item-id", <<"m42">>), <<"open">>),
        N(11, {".blank"}, NoAttrs, <<" ">>) >>,
      d1 |-> <<
        N(0, {"body"}, NoAttrs, <<>>),
        N(1, {".card", "div"}, NoAttrs, <<>>),
        N(2, {".body"}, NoAttrs, <<"Hello1">>),
        N(2, {".next", "a"}, A1("href", RootRel("e1")), <<>>),
        N(2, {".meta"}, NoAttrs, <<"m1">>),
        N(1, {".box", "div"}, NoAttrs, <<>>),
        N(6, {".box", "div"}, NoAttrs, <<>>),
        N(7, {".box", "div"}, NoAttrs, <<>>),
        N(8, {".deep"}, NoAttrs, <<"x">>) >>,
      d2 |-> <<
        N(0, {"body"}, NoAttrs, <<>>),
        N(1, {".card", "div"}, NoAttrs, <<>>),
        N(2, {".body"}, NoAttrs, <<"Hello2">>),
        N(2, {".meta"}, NoAttrs, <<"m2">>) >>,
      e1 |-> <<
        N(0, {"body"}, NoAttrs, <<>>),
        N(1, {".card", "div"}, NoAttrs, <<>>),
        N(2, {".body"}, NoAttrs, <<"E">>),
        N(2, {".next", "a"}, A1("href", AbsUrl("f1")), <<>>),
        N(2, {".meta"}, NoAttrs, <<"m3">>) >>,
      f1 |-> <<
        N(0, {"body"}, NoAttrs, <<>>),
        N(1, {".card", "div"}, NoAttrs, <<>>),
        N(2, {".body"}, NoAttrs, <<"F">>),
        N(2, {".next", "a"}, A1("href", RootRel("g1")), <<>>),
        N(2, {".meta"}, NoAttrs, <<"m4">>) >>,
      g1 |-> <<
        N(0, {"body"}, NoAttrs, <<"G">>),
        N(1, {".back", "a"}, A1("href", RootRel("d1")), <<>>) >>,
      m42 |-> <<
        N(0, {"body"}, NoAttrs, <<>>),
        N(1, {".body"}, NoAttrs, <<"M">>) >>,
      \* a document of link shapes: one subtree of body for each shape
      links |-> <<
        N(0, {"body"}, NoAttrs, <<>>),
        \* 2..4: a link of its own, a button with a link, an inner anchor
        N(1, {".c1", "div"}, A1("href", RootRel("self")), <<>>),
        N(2, {".btn", "span"}, A1("data-url", RootRel("btn")), <<"go">>),
        N(2, {"a"}, A1("href", RootRel("inner")), <<>>),
        \* 5..7: a button without a usable link, an anchor with a handler
        N(1, {".c2", "div"}, NoAttrs, <<>>),
        N(5, {".btn", "span"}, A1("data-href", <<"rel">>), <<>>),
        N(5, {"a"}, A2("href", <<"#", "top">>,
                       "onclick", <<"x", "location=", "/", "oc", "'", ";">>), <<>>),
        \* 8..9: a span within an anchor
        N(1, {".wrap", "a"}, A1("href", RootRel("outer")), <<>>),
        N(8, {".in", "span"}, NoAttrs, <<" ", "in", " ">>),
        \* 10..13: no link within three containers
        N(1, {".w1", "div"}, NoAttrs, <<>>),
        N(10, {".w2", "div"}, NoAttrs, <<>>),
        N(11, {".w3", "div"}, NoAttrs, <<>>),
        N(12, {".lone", "span"}, NoAttrs, <<>>),
        \* 14..19: a handler in the nearer container, an anchor in the farther
        N(1, {".k1", "div"}, NoAttrs, <<>>),
        N(14, {".k2", "div"}, NoAttrs, <<>>),
        N(15, {".tgt", "span"}, NoAttrs, <<"t">>),
        N(15, {".pop", "span"},
          A1("onclick", <<"window.open(", "/", "pop", "'", ")">>), <<>>),
        N(14, {"a"}, A1("href", RootRel("far")), <<>>),
        N(14, {".t2", "span"}, NoAttrs, <<>>),
        \* 20..21: identifiers, the first of them empty, and an inner anchor
        N(1, {".idc", "div"}, A2("data-id", <<>>, "data-model-id", <<"m7">>), <<>>),
        N(20, {"a"}, A1("href", RootRel("ida")), <<>>),
        \* 22..24: attributes that are rejected, relative or empty
        N(1, {".js", "span"},
          A3("href", <<"javascript:", "void">>, "data-href", <<"rel">>,
             "data-link", RootRel("dl")), <<>>),
        N(1, {".e", "span"}, A2("href", <<>>, "data-x", <<>>), <<>>),
        N(1, {".abs", "span"},
          A2("data-url", <<"rel">>, "data-src", AbsUrl("src")), <<"s">>),
        \* 25..26: links to a document, the second of them not displayed
        N(1, {".go", "a"}, A1("href", RootRel("d2")), <<"go">>),
        N(1, {".hid", "a"}, A2("href", RootRel("d2"), "hidden", <<>>), <<>>) >> ]

PageKeys == DOMAIN Pages

\* An element is a node of a page; NoEl is the empty selection.
El(page, node) == [page |-> page, node |-> node]
NoEl == [page |-> "", node |-> 0]
length(el) == IF el.node = 0 THEN 0 ELSE 1
NodeOf(el) == Pages[el.page][el.node]

RECURSIVE IsUnder(_, _, _)
\* node m lies strictly below node n
IsUnder(doc, m, n) ==
    /\ m # 0
    /\ doc[m].parent # 0
    /\ (doc[m].parent = n \/ IsUnder(doc, doc[m].parent, n))

Min(S) == CHOOSE x \in S : \A y \in S : x <= y

\* $(selector): all matches in the document, in document order
SelectAll(page, selector) ==
    IF selector = "" \/ page = "" THEN {}
    ELSE {m \in DOMAIN Pages[page] : selector \in Pages[page][m].sels}

\* element.find(selector): the matching descendants
FindAll(el, selector) ==
    IF el.node = 0 \/ selector = "" THEN {}
    ELSE {m \in DOMAIN Pages[el.page] :
            /\ selector \in Pages[el.page][m].sels
            /\ IsUnder(Pages[el.page], m, el.node)}

first(page, S) == IF S = {} THEN NoEl ELSE El(page, Min(S))

find1(el, selector) == first(el.page, FindAll(el, selector))

Max(S) == CHOOSE x \in S : \A y \in S : x >= y

RECURSIVE eqFromEnd(_, _, _)
\* eq counting from the last match
eqFromEnd(page, S, k) ==
    IF S = {} THEN NoEl
    ELSE IF k = 1 THEN El(page, Max(S))
    ELSE eqFromEnd(page, S \ {Max(S)}, k - 1)

\* items.eq(k - 1): the k-th match in document order
RECURSIVE eq(_, _, _)
eq(page, S, k) ==
    IF S = {} THEN NoEl
    ELSE IF k = 1 THEN El(page, Min(S))
    ELSE eq(page, S \ {Min(S)}, k - 1)

parent(el) ==
    IF el.node = 0 \/ NodeOf(el).parent = 0 THEN NoEl
    ELSE El(el.page, NodeOf(el).parent)

RECURSIVE closest(_, _)
closest(el, selector) ==
    IF el.node = 0 THEN NoEl
    ELSE IF selector \in NodeOf(el).sels THEN el
    ELSE closest(parent(el), selector)

attr(el, name) ==
    IF el.node # 0 /\ name \in DOMAIN NodeOf(el).attrs
    THEN Str(NodeOf(el).attrs[name])
    ELSE Undefined

RECURSIVE TextFrom(_, _, _)
\* the text of node n and of its descendants, in document order
TextFrom(doc, n, m) ==
    IF m > Len(doc) THEN <<>>
    ELSE (IF m = n \/ IsUnder(doc, m, n) THEN doc[m].text ELSE <<>>)
         \o TextFrom(doc, n, m + 1)

text(el) == IF el.node = 0 THEN <<>> ELSE TextFrom(Pages[el.page], el.node, el.node)

\* element.html(): the inner markup, empty for an element with no content
html(el) ==
    IF el.node = 0 THEN Null
    ELSE IF \A m \in DOMAIN Pages[el.page] :
                 ~IsUnder(Pages[el.page], m, el.node) /\ NodeOf(el).text = <<>>
         THEN Str(<<>>)
    ELSE Str(<<"<markup>">> \o text(el))

\* the nodes carrying one of the attributes: container.find('[a], [b], ...')
FindAttrs(el, names) ==
    IF el.node = 0 THEN {}
    ELSE {m \in DOMAIN Pages[el.page] :
            /\ DOMAIN Pages[el.page][m].attrs \cap names # {}
            /\ IsUnder(Pages[el.page], m, el.node)}

-----------------------------------------------------------------------------
(* The Link Resolver *)

\* onclick.match(/<kind>\s*['"]([^'"]+)['"]/): the quoted literal that
\* follows the first occurrence of the token kind, up to the closing quote
RECURSIVE UpToQuote(_)
UpToQuote(s) ==
    IF s = <<>> \/ Head(s) = "'" THEN <<>> ELSE <<Head(s)>> \o UpToQuote(Tail(s))

RECURSIVE onclickMatch(_, _)
onclickMatch(s, kind) ==
    IF s = <<>> THEN <<>>
    ELSE IF Head(s) = kind /\ UpToQuote(Tail(s)) # <<>> THEN UpToQuote(Tail(s))
    ELSE onclickMatch(Tail(s), kind)

\* a || b
OrElse(a, b) == IF Truthy(a) THEN a ELSE b

StrOrNull(s) == IF s # <<>> THEN Str(s) ELSE Null

\* 1. href, unless it is a fragment or a javascript: pseudo-link
hrefOf(href) ==
    IF Truthy(href) /\ ~startsWith(href.s, "#") /\ ~startsWith(href.s, "javascript:")
    THEN href ELSE Null

dataAttrs == <<"data-href", "data-url", "data-link", "data-src", "data-target-url">>

\* val && val.startsWith('/') || val?.startsWith('http')
dataAttrOk(val) ==
    \/ (Truthy(val) /\ startsWith(val.s, "/"))
    \/ (val.k = "str" /\ startsWith(val.s, "http"))

RECURSIVE firstDataAttr(_, _)
\* 2. the loop over dataAttrs from index k
firstDataAttr(el, k) ==
    IF k > Len(dataAttrs) THEN Null
    ELSE IF dataAttrOk(attr(el, dataAttrs[k])) THEN attr(el, dataAttrs[k])
    ELSE firstDataAttr(el, k + 1)

\* 3. the URL assigned to the location, else the URL opened
onclickUrl(oc) ==
    OrElse(StrOrNull(onclickMatch(IF Truthy(oc) THEN oc.s ELSE <<>>, "location=")),
           StrOrNull(onclickMatch(IF Truthy(oc) THEN oc.s ELSE <<>>, "window.open(")))

\* 4. the mark of an identifier, left to the caller
dataIdMark(dataId) ==
    IF Truthy(dataId) THEN Str(<<"__data_id__:">> \o dataId.s) ELSE Null

\* an extraction that stops at an href, accepted or rejected
extractUrlFromElement_HrefHides(el) ==
    IF attr(el, "href").k = "str" THEN hrefOf(attr(el, "href"))
    ELSE OrElse(firstDataAttr(el, 1),
         OrElse(onclickUrl(attr(el, "onclick")),
                dataIdMark(OrElse(attr(el, "data-id"),
                           OrElse(attr(el, "data-item-id"),
                                  attr(el, "data-model-id"))))))

extractUrlFromElement(el) ==
    OrElse(hrefOf(attr(el, "href")),
    OrElse(firstDataAttr(el, 1),
    OrElse(onclickUrl(attr(el, "onclick")),
           dataIdMark(OrElse(attr(el, "data-id"),
                      OrElse(attr(el, "data-item-id"), attr(el, "data-model-id")))))))

\* extractUrlFromElement on a selection that may be empty (the if (x.length))
urlIfAny(el) == IF length(el) = 0 THEN Null ELSE extractUrlFromElement(el)

MaxContainers == 3

RECURSIVE inContainers(_, _)
\* step 5: the loop over at most 3 ancestor containers, k containers left
inContainers(container, k) ==
    IF k = 0 \/ length(container) = 0 THEN Null
    ELSE OrElse(urlIfAny(find1(container, "a")),
         OrElse(urlIfAny(first(container.page,
                    FindAttrs(container, {"onclick", "data-href", "data-url"}))),
                inContainers(parent(container), k - 1)))

\* a resolver that stops at the click selector's match, link or no link
findClickableLink_NoFallThrough(element, clickSelector) ==
    IF clickSelector # "" /\ length(find1(element, clickSelector)) # 0
    THEN extractUrlFromElement(find1(element, clickSelector))
    ELSE OrElse(extractUrlFromElement(element),
         OrElse(urlIfAny(find1(element, "a")),
         OrElse(urlIfAny(closest(element, "a")),
                inContainers(parent(element), MaxContainers))))

findClickableLink(element, clickSelector) ==
    OrElse(urlIfAny(IF clickSelector # "" THEN find1(element, clickSelector)
                    ELSE NoEl),
    OrElse(extractUrlFromElement(element),
    OrElse(urlIfAny(find1(element, "a")),
    OrElse(urlIfAny(closest(element, "a")),
           inContainers(parent(element), MaxContainers)))))

\* new URL(rel, base).href, or rel when the constructor throws
resolveUrl(base, rel) ==
    IF startsWith(rel, "http") \/ startsWith(rel, "javascript:") THEN rel
    ELSE IF ~(startsWith(base, "http") /\ Len(base) >= 4) THEN rel
    ELSE IF rel = <<>> THEN base
    ELSE IF startsWith(rel, "#") THEN base \o rel
    ELSE IF startsWith(rel, "/") THEN <<"http", base[2]>> \o rel
    ELSE <<"http", base[2], "/">> \o rel

-----------------------------------------------------------------------------
(* The Field Extractor *)

extractValue(element, type, attribute) ==
    CASE type = "text" -> OrNull(Str(trim(text(element))))
      [] type = "html" -> OrNull(html(element))
      [] type = "attribute" ->
            IF attribute # "" THEN OrNull(attr(element, attribute)) ELSE Null
      [] OTHER -> Null

-----------------------------------------------------------------------------
(* Objects, messages and the transport *)

\* A JavaScript object with string keys: its entries in insertion order.
\* o[name] = val keeps the position of a key already present.
ObjSet(o, name, val) ==
    IF \E k \in DOMAIN o : o[k].name = name
    THEN [k \in DOMAIN o |-> IF o[k].name = name THEN [name |-> name, val |-> val]
                                                  ELSE o[k]]
    ELSE Append(o, [name |-> name, val |-> val])

ObjHas(o, name) == \E k \in DOMAIN o : o[k].name = name
ObjGet(o, name) == o[CHOOSE k \in DOMAIN o : o[k].name = name].val
ObjKeys(o) == [k \in DOMAIN o |-> o[k].name]

DEFAULT_UA == <<"Mozilla/5.0">>

\* headers that never carry the cookie
Headers_NoCookie(cookie, userAgent) ==
    <<[name |-> "User-Agent", val |-> userAgent]>>

\* { ...(cookie && { Cookie: cookie }), 'User-Agent': userAgent }
Headers(cookie, userAgent) ==
    ObjSet(IF cookie # <<>> THEN <<[name |-> "Cookie", val |-> cookie]>> ELSE <<>>,
           "User-Agent", userAgent)

\* the page a URL is served from ("" when the transport has no such page)
PageKeyOf(url) ==
    IF Len(url) >= 4 /\ url[1] = "http" /\ url[2] = Host /\ url[3] = "/"
       /\ url[4] \in PageKeys
    THEN url[4] ELSE ""

Served(url) == PageKeyOf(url) # "" /\ PageKeyOf(url) \notin down

Ok(page) == [ok |-> TRUE, page |-> page]
Fail(msg) == [ok |-> FALSE, msg |-> msg]

\* axios.get(url, {headers}): the body, or the exception axios throws
axiosGet(url) ==
    IF Served(url) THEN Ok(PageKeyOf(url))
    ELSE Fail(<<"Request failed">> \o url)

\* page.waitForSelector(selector): puppeteer's timeout names the selector
waitForSelector(page, selector) ==
    IF selector # "" /\ SelectAll(page, selector) # {} THEN Ok(page)
    ELSE Fail(<<"Waiting for selector", selector, "failed">>)

\* page.goto(url)
goto(url) ==
    IF Served(url) THEN Ok(PageKeyOf(url)) ELSE Fail(<<"net::ERR">> \o url)

\* if (waitSelector) await page.waitForSelector(waitSelector)
waitIfAny(loaded, waitSelector) ==
    IF loaded.ok /\ waitSelector # "" THEN waitForSelector(loaded.page, waitSelector)
    ELSE loaded

\* a finally that closes the browser only when the fetch succeeded
closeBrowser_OnSuccess(open, r) == IF r.ok THEN open - 1 ELSE open

\* finally { await browser.close() }: whatever the outcome r of the fetch
closeBrowser(open, r) == open - 1

\* the outcome of getRenderedHtml(url, waitSelector, cookie)
getRenderedHtml(url, waitSelector) == waitIfAny(goto(url), waitSelector)

\* the page shown after page.click on the first match of clickSelector and the
\* tolerated waitForNavigation: the target of the link when it loads, else
\* the page clicked on
clickThrough(url, page, href) ==
    IF Truthy(href) /\ Served(resolveUrl(url, href.s))
    THEN PageKeyOf(resolveUrl(url, href.s)) ELSE page

\* page.click(selector) on the first match: puppeteer throws when the element
\* is not displayed
click(found, el) ==
    IF ~found.ok THEN found
    ELSE IF attr(el, "hidden").k = "str"
         THEN Fail(<<"Node is either not clickable or not an Element">>)
    ELSE found

\* a click whose navigation must succeed: waitForNavigation without its catch
navigated_Fatal(url, clicked, href) ==
    IF ~clicked.ok THEN clicked
    ELSE IF Truthy(href) /\ Served(resolveUrl(url, href.s))
         THEN Ok(clickThrough(url, clicked.page, href))
    ELSE Fail(<<"Navigation timeout">>)

\* await page.waitForNavigation(...).catch(() => {})
navigated(url, clicked, href) ==
    IF ~clicked.ok THEN clicked
    ELSE Ok(clickThrough(url, clicked.page, href))

afterClick(url, found, clickSelector) ==
    IF ~found.ok THEN found
    ELSE navigated(url,
             click(found, first(found.page, SelectAll(found.page, clickSelector))),
             attr(first(found.page, SelectAll(found.page, clickSelector)), "href"))

\* page.waitForSelector(clickSelector) after the goto
waitClick(loaded, clickSelector) ==
    IF loaded.ok THEN waitForSelector(loaded.page, clickSelector) ELSE loaded

\* the outcome of clickAndGetHtml(url, clickSelector, waitSelector, cookie)
clickAndGetHtml(url, clickSelector, waitSelector) ==
    waitIfAny(afterClick(url, waitClick(goto(url), clickSelector), clickSelector),
              waitSelector)

-----------------------------------------------------------------------------
(* Field schemas *)

NoJump == [present |-> FALSE]
Jump(clickSelector, targetSelector, urlTemplate, fields) ==
    [present |-> TRUE, clickSelector |-> clickSelector,
     targetSelector |-> targetSelector, urlTemplate |-> urlTemplate,
     fields |-> fields]

Plain(name, selector, type, attribute) ==
    [name |-> name, selector |-> selector, type |-> type, attribute |-> attribute,
     isJump |-> FALSE, jumpConfig |-> NoJump]
Nav(name, selector, jumpConfig) ==
    [name |-> name, selector |-> selector, type |-> "text", attribute |-> "",
     isJump |-> TRUE, jumpConfig |-> jumpConfig]

\* a child list that holds the field object it belongs to: the entry stands
\* for the reference, under the name of that field
SelfRef(name) ==
    [name |-> name, selector |-> "", type |-> "ref", attribute |-> "",
     isJump |-> FALSE, jumpConfig |-> NoJump]

Title == Plain("title", ".title", "text", "")
Link == Plain("link", ".link", "attribute", "href")
Ghost == Plain("ghost", ".ghost", "text", "")
Body == Plain("body", ".body", "text", "")
Meta == Plain("meta", ".meta", "html", "")

\* a chain of navigation fields that evaluates deep and its sibling at level 4
Hop4 == Nav("hop4", ".next", Jump(".next", "", <<>>, <<>>))
Hop3 == Nav("hop3", ".next", Jump(".next", "", <<>>, <<Body, Hop4, Meta>>))
Hop2 == Nav("hop2", ".next", Jump(".next", "", <<>>, <<Body, Hop3, Meta>>))
Hop1 == Nav("hop1", ".link", Jump(".link", "", <<>>, <<Body, Hop2, Meta>>))

\* two hops with child fields, the third without: no field at level 4
Leaf3 == Nav("leaf3", ".next", Jump("", ".body", <<>>, <<>>))
Mid2 == Nav("mid2", ".next", Jump("", "", <<>>, <<Body, Leaf3, Meta>>))
Peek == Nav("peek", ".next", Jump("", ".meta", <<>>, <<>>))
Top1 == Nav("top1", ".link", Jump("", "", <<>>, <<Body, Mid2, Ghost, Peek, Meta>>))

\* one hop whose child dead has an anchor and no link within three containers
Dead == Nav("dead", ".deep", Jump(".deep", "", <<>>, <<>>))
Unit == Nav("unit", ".link", Jump(".link", "", <<>>, <<Body, Dead, Meta>>))

\* a self-referential schema: loop is one of its own child fields
Loop == Nav("loop", "a", Jump("", "", <<>>, <<Body, SelfRef("loop"), Meta>>))

Detail == Nav("detail", ".link", Jump(".link", ".body", <<>>, <<>>))
ById == Nav("byid", ".link", Jump("", ".body", <<"/", "{id}">>, <<>>))
NoTarget == Nav("notarget", ".link", Jump("", ".ghost", <<>>, <<Body>>))

Schemas ==
    { <<Title, Link>>,
      <<Title, Ghost, Link>>,
      <<Title, Detail, Link>>,
      <<ById, NoTarget, Title>>,
      <<Title, Top1, Link>>,
      <<Title, Hop1, Link>>,
      <<Title, Unit>> }

-----------------------------------------------------------------------------
(* Activations of extractField and completions *)

Frame(element, field, baseUrl, jumpLevel) ==
    [el |-> element, field |-> field, baseUrl |-> baseUrl, level |-> jumpLevel,
     phase |-> "enter", resolved |-> baseUrl, target |-> NoEl, idx |-> 1,
     subData |-> <<>>]

None == [k |-> "none"]
Return(val, at) == [k |-> "return", val |-> val, at |-> at]
Throw(msg, at) == [k |-> "throw", msg |-> msg, at |-> at]

\* a completion, tagged with the field and level of the activation it ends
Ended(f, c) ==
    IF c.k = "return"
    THEN [k |-> "return", val |-> c.val, at |-> c.at, name |-> f.field.name,
          level |-> f.level]
    ELSE [k |-> "throw", msg |-> c.msg, at |-> c.at, name |-> f.field.name,
          level |-> f.level]

Top == stack[Len(stack)]
Pop == SubSeq(stack, 1, Len(stack) - 1)
SetTop(f) == [stack EXCEPT ![Len(stack)] = f]

NoNum == [k |-> "undefined"]
Num(n) == [k |-> "num", n |-> n]

MaxJumps == 3
DepthMsg == <<"max 3 jumps">>

\* a depth check that never fires
DepthExceeded_Never(jumpLevel) == FALSE

\* if (jumpLevel > 3) throw
DepthExceeded(jumpLevel) == jumpLevel > MaxJumps

-----------------------------------------------------------------------------
(* CrawlerEngine.extractField *)

\* static mode, from the link found to the GET: no link and an identifier
\* without a template end the field with null
staticJump(f, href) ==
    IF ~Truthy(href) THEN Return(Null, "nolink")
    ELSE IF startsWith(href.s, "__data_id__:")
    THEN (IF f.field.jumpConfig.urlTemplate # <<>>
          THEN [k |-> "get",
                url |-> resolveUrl(f.baseUrl,
                           replace(f.field.jumpConfig.urlTemplate, "{id}",
                                   replace(href.s, "__data_id__:", <<>>)))]
          ELSE Return(Null, "opaque"))
    ELSE [k |-> "get", url |-> resolveUrl(f.baseUrl, href.s)]

\* extractFieldAt for which a missing anchor element is an error
extractFieldAt_MissingThrows(f, el) ==
    IF length(el) = 0 THEN Throw(<<"element not found">>, "missing")
    ELSE IF ~f.field.isJump \/ ~f.field.jumpConfig.present
    THEN Return(extractValue(el, f.field.type, f.field.attribute), "plain")
    ELSE IF req.useBrowser
    THEN [k |-> "click", url |-> f.baseUrl]
    ELSE staticJump(f, findClickableLink(el, f.field.jumpConfig.clickSelector))

\* extractField once the anchor element el is located
extractFieldAt(f, el) ==
    IF length(el) = 0 THEN Return(Null, "missing")
    ELSE IF ~f.field.isJump \/ ~f.field.jumpConfig.present
    THEN Return(extractValue(el, f.field.type, f.field.attribute), "plain")
    ELSE IF req.useBrowser
    THEN [k |-> "click", url |-> f.baseUrl]
    ELSE staticJump(f, findClickableLink(el, f.field.jumpConfig.clickSelector))

\* From the entry of extractField to its first await or its completion.
extractFieldEnter(f) ==
    IF DepthExceeded(f.level) THEN Throw(DepthMsg, "depth")
    ELSE extractFieldAt(f, find1(f.el, f.field.selector))

\* the outcome of the fetch an activation awaits
jumpOutcome(f) ==
    IF req.useBrowser
    THEN clickAndGetHtml(f.baseUrl, f.field.jumpConfig.clickSelector,
                         f.field.jumpConfig.targetSelector)
    ELSE axiosGet(f.resolved)

\* cheerio.load(jumpHtml) and the choice of the target
targetOf(page, targetSelector) ==
    IF targetSelector # "" THEN first(page, SelectAll(page, targetSelector))
    ELSE El(page, 1)

\* the target once chosen: null, the child loop, or the trimmed text
extractFieldTarget(f, target) ==
    IF length(target) = 0 THEN Return(Null, "notarget")
    ELSE IF Len(f.field.jumpConfig.fields) > 0
    THEN [k |-> "children", target |-> target]
    ELSE Return(Str(trim(text(target))), "text")

\* From the return of the fetch to the child loop or the completion.
extractFieldAfterJump(f, r) ==
    IF r.ok
    THEN extractFieldTarget(f, targetOf(r.page, f.field.jumpConfig.targetSelector))
    ELSE Throw(r.msg, "fetch")

\* a request as issued; trail is the place of the call: the list item and
\* the names of the fields of the activations that are open
FetchRec(kind, url, headers, level, trail) ==
    [kind |-> kind, url |-> url, headers |-> headers, level |-> level,
     trail |-> trail]

NoTrail == [item |-> 0, names |-> <<>>]
Trail == [item |-> stack[1].el.node,
          names |-> [j \in DOMAIN stack |-> stack[j].field.name]]

Cookie == req.cookie
UserAgent == IF req.userAgent.k = "str" THEN req.userAgent.s ELSE DEFAULT_UA

EnvVars == <<impl, req, down, calls>>
NodeVars == <<returnData, raised, itemIndex>>

\* the step an activation takes on outcome o: it completes, or it issues a
\* fetch and awaits it
Proceed(o, headers) ==
    IF o.k \in {"return", "throw"}
    THEN /\ stack' = Pop
         /\ ret' = Ended(Top, o)
         /\ UNCHANGED <<inflight, fetchLog, browsers>>
    ELSE /\ stack' = SetTop([Top EXCEPT !.phase = "await",
                 !.resolved = IF o.k = "get" THEN o.url ELSE @])
         /\ fetchLog' = Append(fetchLog,
                FetchRec(o.k, o.url, IF o.k = "get" THEN headers ELSE <<>>,
                         Top.level, Trail))
         /\ inflight' = inflight \cup {Len(fetchLog) + 1}
         /\ browsers' = IF o.k = "click" THEN browsers + 1 ELSE browsers
         /\ UNCHANGED ret

\* extractField runs from its entry to its first await or its completion
ExtractFieldEnter ==
    /\ impl = "engine" /\ pc = "fields" /\ ret.k = "none"
    /\ stack # <<>> /\ Top.phase = "enter"
    /\ Proceed(extractFieldEnter(Top), Headers(Cookie, UserAgent))
    /\ UNCHANGED <<EnvVars, NodeVars, pc, result, count, i, fi, data>>

\* the step of an activation whose fetch completes with outcome o
Resume(o) ==
    IF o.k = "children"
    THEN /\ stack' = SetTop([Top EXCEPT !.phase = "children", !.target = o.target])
         /\ UNCHANGED ret
    ELSE /\ stack' = Pop
         /\ ret' = Ended(Top, o)

\* the awaited fetch completes: the finally closes the browser, then the
\* failure is thrown or the target is chosen
ExtractFieldResume ==
    /\ impl = "engine" /\ pc = "fields"
    /\ stack # <<>> /\ Top.phase = "await"
    /\ inflight' = {}
    /\ browsers' = IF req.useBrowser THEN closeBrowser(browsers, jumpOutcome(Top))
                   ELSE browsers
    /\ Resume(extractFieldAfterJump(Top, jumpOutcome(Top)))
    /\ UNCHANGED <<EnvVars, NodeVars, pc, result, count, i, fi, data, fetchLog>>

\* the child loop taken from the last declared field to the first
nextChild_Reversed(fields, idx) == fields[Len(fields) - idx + 1]

\* for (const sf of fields): the idx-th field of the loop
nextChild(fields, idx) == fields[idx]

\* sf, the object the child list refers to: the field f itself when the
\* list holds f
Deref(f, sf) == IF sf.type = "ref" THEN f.field ELSE sf

\* the child is called against the page the parent came from
childCall_OldBase(f, sf) == Frame(f.target, Deref(f, sf), f.baseUrl, f.level + 1)

\* extractField(target, sf, resolvedJumpUrl, cookie, userAgent, jumpLevel + 1,
\* useBrowser)
childCall(f, sf) == Frame(f.target, Deref(f, sf), f.resolved, f.level + 1)

\* for (const sf of field.jumpConfig.fields): the call for the next child
ExtractFieldCallChild ==
    /\ impl = "engine" /\ pc = "fields" /\ ret.k = "none"
    /\ stack # <<>> /\ Top.phase = "children"
    /\ Top.idx <= Len(Top.field.jumpConfig.fields)
    /\ stack' = Append(stack,
           childCall(Top, nextChild(Top.field.jumpConfig.fields, Top.idx)))
    /\ UNCHANGED <<EnvVars, NodeVars, pc, result, count, i, fi, data, ret, inflight,
                   fetchLog, browsers>>

\* a child completes: its value is stored under its name; its exception is
\* not caught here and ends this activation too
ExtractFieldChildDone ==
    /\ impl = "engine" /\ pc = "fields" /\ ret.k # "none"
    /\ stack # <<>> /\ Top.phase = "children"
    /\ IF ret.k = "return"
       THEN /\ stack' = SetTop([Top EXCEPT
                    !.subData = ObjSet(Top.subData,
                        nextChild(Top.field.jumpConfig.fields, Top.idx).name,
                        ret.val),
                    !.idx = Top.idx + 1])
            /\ ret' = None
       ELSE /\ stack' = Pop
            /\ UNCHANGED ret
    /\ UNCHANGED <<EnvVars, NodeVars, pc, result, count, i, fi, data, inflight,
                   fetchLog, browsers>>

\* return subData
ExtractFieldReturnChildren ==
    /\ impl = "engine" /\ pc = "fields" /\ ret.k = "none"
    /\ stack # <<>> /\ Top.phase = "children"
    /\ Top.idx > Len(Top.field.jumpConfig.fields)
    /\ stack' = Pop
    /\ ret' = Ended(Top, Return(Obj(Top.subData), "children"))
    /\ UNCHANGED <<EnvVars, NodeVars, pc, result, count, i, fi, data, inflight,
                   fetchLog, browsers>>

-----------------------------------------------------------------------------
(* CrawlerEngine.crawl *)

TopPage == PageKeyOf(req.url)
Items == SelectAll(TopPage, req.listSelector)

ListNotFound(listSelector) == <<"list not found:", listSelector>>

\* itemCount without the cap
itemCount_NoCap(n, maxItems) == n

\* maxItems ? Math.min(items.length, maxItems) : items.length
itemCount(n, maxItems) ==
    IF maxItems.k = "num" /\ maxItems.n # 0
    THEN (IF maxItems.n < n THEN maxItems.n ELSE n)
    ELSE n

\* `${field.name}: ${e.message}`
fieldError(name, msg) == <<name, ": ">> \o msg

\* the top-level fetch is issued
\* a result object that the calls of crawl share
crawlResultInit_Shared == result

\* const result: CrawlerResult = { success: true, data: [], errors: [] }
crawlResultInit == [success |-> TRUE, data |-> <<>>, errors |-> <<>>]

CrawlStart ==
    /\ impl = "engine" /\ pc = "start"
    /\ pc' = "top"
    /\ result' = crawlResultInit
    /\ fetchLog' = Append(fetchLog,
           IF req.useBrowser THEN FetchRec("render", req.url, <<>>, 0, NoTrail)
           ELSE FetchRec("get", req.url, Headers(Cookie, UserAgent), 0, NoTrail))
    /\ inflight' = inflight \cup {Len(fetchLog) + 1}
    /\ browsers' = IF req.useBrowser THEN browsers + 1 ELSE browsers
    /\ UNCHANGED <<EnvVars, NodeVars, count, i, fi, data, stack, ret>>

\* the outcome of the top-level fetch
topOutcome ==
    IF req.useBrowser
    THEN getRenderedHtml(req.url,
             IF req.waitSelector # "" THEN req.waitSelector ELSE req.listSelector)
    ELSE axiosGet(req.url)

\* the outer catch that lets the exception leave crawl
crawlCatch_Rethrow(msg) ==
    [result |-> result,
     raised |-> [k |-> "error", msg |-> msg, itemIndex |-> 1]]

\* catch (e) { result.success = false; result.errors.push(message) }
crawlCatch(msg) ==
    [result |-> [result EXCEPT !.success = FALSE, !.errors = Append(@, msg)],
     raised |-> raised]

\* crawlAfterFetch without the list check: zero items are processed
crawlAfterFetch_NoListCheck(r) ==
    IF ~r.ok
    THEN [pc |-> "done", count |-> count, raised |-> raised,
          result |-> [result EXCEPT !.success = FALSE, !.errors = Append(@, r.msg)]]
    ELSE [pc |-> "fields", count |-> itemCount(Cardinality(Items), req.maxItems),
          result |-> result, raised |-> raised]

\* crawlAfterFetch whose outer catch records the failure and leaves success
crawlAfterFetch_KeepSuccess(r) ==
    IF ~r.ok
    THEN [pc |-> "done", count |-> count, raised |-> raised,
          result |-> [result EXCEPT !.errors = Append(@, r.msg)]]
    ELSE IF Items = {}
    THEN [pc |-> "done", count |-> count, raised |-> raised,
          result |-> [result EXCEPT !.success = FALSE,
                         !.errors = Append(@, ListNotFound(req.listSelector))]]
    ELSE [pc |-> "fields", count |-> itemCount(Cardinality(Items), req.maxItems),
          result |-> result, raised |-> raised]

\* the exception of the top-level fetch reaches the outer catch
crawlCaught(c) ==
    [pc |-> "done", count |-> count, result |-> c.result, raised |-> c.raised]

\* after the top-level fetch with outcome r: the outer catch, the list
\* check, the count
crawlAfterFetch(r) ==
    IF ~r.ok
    THEN crawlCaught(crawlCatch(r.msg))
    ELSE IF Items = {}
    THEN [pc |-> "done", count |-> count, raised |-> raised,
          result |-> [result EXCEPT !.success = FALSE,
                         !.errors = Append(@, ListNotFound(req.listSelector))]]
    ELSE [pc |-> "fields", count |-> itemCount(Cardinality(Items), req.maxItems),
          result |-> result, raised |-> raised]

\* the step of crawl after the top-level fetch, with its effect c
CrawlAfter(c) ==
    /\ result' = c.result
    /\ raised' = c.raised
    /\ count' = c.count
    /\ pc' = IF c.pc = "fields" /\ c.count >= 1 THEN "fields" ELSE "done"

\* the top-level fetch completes
CrawlTopDone ==
    /\ impl = "engine" /\ pc = "top"
    /\ inflight' = {}
    /\ browsers' = IF req.useBrowser THEN closeBrowser(browsers, topOutcome)
                   ELSE browsers
    /\ CrawlAfter(crawlAfterFetch(topOutcome))
    /\ i' = 1 /\ fi' = 1 /\ data' = <<>>
    /\ UNCHANGED <<EnvVars, returnData, itemIndex, stack, ret, fetchLog>>

\* data[field.name] = await extractField(item, field, url, ..., 1, useBrowser)
CrawlCallField ==
    /\ impl = "engine" /\ pc = "fields" /\ stack = <<>> /\ ret.k = "none"
    /\ fi <= Len(req.fields)
    /\ stack' = <<Frame(eq(TopPage, Items, i), req.fields[fi], req.url, 1)>>
    /\ UNCHANGED <<EnvVars, NodeVars, pc, result, count, i, fi, data, ret, inflight,
                   fetchLog, browsers>>

\* crawlFieldDone that records the message without the name of the field
crawlFieldDone_Unnamed(name, c) ==
    IF c.k = "return"
    THEN [data |-> ObjSet(data, name, c.val), errors |-> result.errors,
          success |-> result.success]
    ELSE [data |-> ObjSet(data, name, Null),
          errors |-> Append(result.errors, c.msg),
          success |-> result.success]

\* crawlFieldDone for which the failure of a field fails the crawl
crawlFieldDone_Fatal(name, c) ==
    IF c.k = "return"
    THEN [data |-> ObjSet(data, name, c.val), errors |-> result.errors,
          success |-> result.success]
    ELSE [data |-> ObjSet(data, name, Null),
          errors |-> Append(result.errors, fieldError(name, c.msg)),
          success |-> FALSE]

\* the value is stored; an exception is caught, stored as null and recorded
crawlFieldDone(name, c) ==
    IF c.k = "return"
    THEN [data |-> ObjSet(data, name, c.val), errors |-> result.errors,
          success |-> result.success]
    ELSE [data |-> ObjSet(data, name, Null),
          errors |-> Append(result.errors, fieldError(name, c.msg)),
          success |-> result.success]

CrawlFieldDone ==
    /\ impl = "engine" /\ pc = "fields" /\ stack = <<>> /\ ret.k # "none"
    /\ LET o == crawlFieldDone(req.fields[fi].name, ret)
       IN  /\ data' = o.data
           /\ result' = [result EXCEPT !.errors = o.errors, !.success = o.success]
    /\ fi' = fi + 1
    /\ ret' = None
    /\ UNCHANGED <<EnvVars, NodeVars, pc, count, i, stack, inflight, fetchLog,
                   browsers>>

\* a push that leaves out a record with a field that is null
pushRecord_DropIncomplete(records, rec) ==
    IF \E j \in DOMAIN rec : rec[j].val = Null THEN records
    ELSE Append(records, rec)

\* result.data.push(data)
pushRecord(records, rec) == Append(records, rec)

\* result.data.push(data) and the next item
CrawlPushRecord ==
    /\ impl = "engine" /\ pc = "fields" /\ stack = <<>> /\ ret.k = "none"
    /\ fi > Len(req.fields)
    /\ result' = [result EXCEPT !.data = pushRecord(@, data)]
    /\ i' = i + 1 /\ fi' = 1 /\ data' = <<>>
    /\ pc' = IF i + 1 <= count THEN "fields" ELSE "done"
    /\ UNCHANGED <<EnvVars, NodeVars, count, stack, ret, inflight, fetchLog,
                   browsers>>

-----------------------------------------------------------------------------
(* SmartCrawler.extractField *)

\* the jumpConfig of a node field: one configuration per jump level
LevelJumps(firstJump, secondJump, thirdJump) ==
    [present |-> TRUE, firstJump |-> firstJump, secondJump |-> secondJump,
     thirdJump |-> thirdJump]

\* fields from the parameter form {field: [...]}, with the defaults filled in
normalizeJumpConfig(config) ==
    [present |-> TRUE, clickSelector |-> config.clickSelector,
     targetSelector |-> config.targetSelector, fields |-> config.fields]

getJumpConfig(jumpConfig, level) ==
    IF level = 1 /\ jumpConfig.firstJump.present
    THEN normalizeJumpConfig(jumpConfig.firstJump)
    ELSE IF level = 2 /\ jumpConfig.secondJump.present
    THEN normalizeJumpConfig(jumpConfig.secondJump)
    ELSE IF level = 3 /\ jumpConfig.thirdJump.present
    THEN normalizeJumpConfig(jumpConfig.thirdJump)
    ELSE NoJump

NodeDepthMsg == <<"max 3 jumps, limit reached">>

SmartCrawler_extractValue(element, type, attribute) ==
    CASE type = "text" -> OrNull(Str(trim(text(element))))
      [] type = "html" -> OrNull(html(element))
      [] type = "attribute" ->
            IF attribute = "" THEN Null ELSE OrNull(attr(element, attribute))
      [] OTHER -> Null

\* the href of the click element: href, or data-href unless it is an anchor
clickHref(clickElement) ==
    IF "a" \in NodeOf(clickElement).sels THEN attr(clickElement, "href")
    ELSE IF Truthy(attr(clickElement, "href")) THEN attr(clickElement, "href")
    ELSE attr(clickElement, "data-href")

\* the GET of the click element, or null when there is none or it has no link
SmartCrawler_jump(f, clickElement) ==
    IF length(clickElement) = 0 THEN Return(Null, "noclick")
    ELSE IF ~Truthy(clickHref(clickElement)) THEN Return(Null, "nolink")
    ELSE [k |-> "get", url |-> resolveUrl(f.baseUrl, clickHref(clickElement).s)]

\* extractField once the anchor element is located
SmartCrawler_extractFieldAt(f, element, jumpConfig) ==
    IF length(element) = 0 THEN Return(Null, "missing")
    ELSE IF ~f.field.isJump \/ ~f.field.jumpConfig.present
    THEN Return(SmartCrawler_extractValue(element, f.field.type, f.field.attribute),
                "plain")
    ELSE IF ~jumpConfig.present THEN Return(Null, "nolevel")
    ELSE SmartCrawler_jump(f, find1(element, jumpConfig.clickSelector))

\* the jump configuration of the level of activation f
JumpOf(f) ==
    IF f.field.jumpConfig.present THEN getJumpConfig(f.field.jumpConfig, f.level)
    ELSE NoJump

\* From the entry of extractField to its await or its completion.
SmartCrawler_extractFieldEnter(f) ==
    IF DepthExceeded(f.level) THEN Throw(NodeDepthMsg, "depth")
    ELSE SmartCrawler_extractFieldAt(f, find1(f.el, f.field.selector), JumpOf(f))

\* the target once chosen: it is not checked for emptiness
SmartCrawler_extractFieldTarget(jumpConfig, targetElement) ==
    IF Len(jumpConfig.fields) > 0
    THEN [k |-> "children", target |-> targetElement]
    ELSE Return(Str(trim(text(targetElement))), "text")

\* From the return of the GET to the child loop or the completion.
SmartCrawler_extractFieldAfterJump(f, r) ==
    IF r.ok
    THEN SmartCrawler_extractFieldTarget(JumpOf(f),
             targetOf(r.page, JumpOf(f).targetSelector))
    ELSE Throw(r.msg, "fetch")

EngineVars == <<result>>

NodeExtractFieldEnter ==
    /\ impl = "node" /\ pc = "fields" /\ ret.k = "none"
    /\ stack # <<>> /\ Top.phase = "enter"
    /\ Proceed(SmartCrawler_extractFieldEnter(Top), Headers(Cookie, DEFAULT_UA))
    /\ UNCHANGED <<EnvVars, NodeVars, EngineVars, pc, count, i, fi, data>>

NodeExtractFieldResume ==
    /\ impl = "node" /\ pc = "fields"
    /\ stack # <<>> /\ Top.phase = "await"
    /\ inflight' = {}
    /\ Resume(SmartCrawler_extractFieldAfterJump(Top, axiosGet(Top.resolved)))
    /\ UNCHANGED <<EnvVars, NodeVars, EngineVars, pc, count, i, fi, data, fetchLog,
                   browsers>>

NodeChildren == JumpOf(Top).fields

NodeExtractFieldCallChild ==
    /\ impl = "node" /\ pc = "fields" /\ ret.k = "none"
    /\ stack # <<>> /\ Top.phase = "children"
    /\ Top.idx <= Len(NodeChildren)
    /\ stack' = Append(stack, childCall(Top, nextChild(NodeChildren, Top.idx)))
    /\ UNCHANGED <<EnvVars, NodeVars, EngineVars, pc, count, i, fi, data, ret,
                   inflight, fetchLog, browsers>>

\* a child completes: its exception is caught; with continueOnFail the child
\* is null, otherwise the exception is thrown again
NodeExtractFieldChildDone ==
    /\ impl = "node" /\ pc = "fields" /\ ret.k # "none"
    /\ stack # <<>> /\ Top.phase = "children"
    /\ IF ret.k = "return" \/ req.continueOnFail
       THEN /\ stack' = SetTop([Top EXCEPT
                    !.subData = ObjSet(Top.subData, nextChild(NodeChildren, Top.idx).name,
                                       IF ret.k = "return" THEN ret.val ELSE Null),
                    !.idx = Top.idx + 1])
            /\ ret' = None
       ELSE /\ stack' = Pop
            /\ UNCHANGED ret
    /\ UNCHANGED <<EnvVars, NodeVars, EngineVars, pc, count, i, fi, data, inflight,
                   fetchLog, browsers>>

NodeExtractFieldReturnChildren ==
    /\ impl = "node" /\ pc = "fields" /\ ret.k = "none"
    /\ stack # <<>> /\ Top.phase = "children"
    /\ Top.idx > Len(NodeChildren)
    /\ stack' = Pop
    /\ ret' = Ended(Top, Return(Obj(Top.subData), "children"))
    /\ UNCHANGED <<EnvVars, NodeVars, EngineVars, pc, count, i, fi, data, inflight,
                   fetchLog, browsers>>

-----------------------------------------------------------------------------
(* SmartCrawler.execute *)

UrlEmptyMsg == <<"url must not be empty">>
ListSelectorEmptyMsg == <<"listSelector must not be empty">>
NodeListNotFound(listSelector) == <<"no element matches list selector", listSelector>>

ErrorItem(msg, item) ==
    [json |-> <<[name |-> "error", val |-> Str(msg)]>>, pairedItem |-> item]

\* a catch that emits the item {error} whatever continueOnFail is
outerCatch_AlwaysContinue(msg) ==
    [returnData |-> Append(returnData, ErrorItem(msg, itemIndex)),
     raised |-> raised,
     itemIndex |-> itemIndex + 1,
     pc |-> IF itemIndex + 1 <= req.inputItemCount THEN "start" ELSE "done"]

\* the catch around one input item: with continueOnFail an item {error} is
\* emitted and the next input follows, otherwise execute throws
outerCatch(msg) ==
    IF req.continueOnFail
    THEN [returnData |-> Append(returnData, ErrorItem(msg, itemIndex)),
          raised |-> raised,
          itemIndex |-> itemIndex + 1,
          pc |-> IF itemIndex + 1 <= req.inputItemCount THEN "start" ELSE "done"]
    ELSE [returnData |-> returnData,
          raised |-> [k |-> "error", msg |-> msg, itemIndex |-> itemIndex],
          itemIndex |-> itemIndex,
          pc |-> "done"]

Caught(c) ==
    /\ returnData' = c.returnData
    /\ raised' = c.raised
    /\ itemIndex' = c.itemIndex
    /\ pc' = c.pc

\* the parameters of one input item are validated and the GET is issued
validate ==
    IF req.url = <<>> THEN Fail(UrlEmptyMsg)
    ELSE IF req.listSelector = "" THEN Fail(ListSelectorEmptyMsg)
    ELSE Ok("")

ExecuteItem ==
    /\ impl = "node" /\ pc = "start"
    /\ IF ~validate.ok
       THEN /\ Caught(outerCatch(validate.msg))
            /\ UNCHANGED <<fetchLog, inflight>>
       ELSE /\ pc' = "top"
            /\ fetchLog' = Append(fetchLog,
                   FetchRec("get", req.url, Headers(Cookie, DEFAULT_UA), 0, NoTrail))
            /\ inflight' = inflight \cup {Len(fetchLog) + 1}
            /\ UNCHANGED NodeVars
    /\ UNCHANGED <<EnvVars, EngineVars, count, i, fi, data, stack, ret, browsers>>

ExecuteTopDone ==
    /\ impl = "node" /\ pc = "top"
    /\ inflight' = {}
    /\ IF ~axiosGet(req.url).ok
       THEN /\ Caught(outerCatch(axiosGet(req.url).msg))
            /\ UNCHANGED <<count, i, fi, data>>
       ELSE IF Items = {}
       THEN /\ Caught(outerCatch(NodeListNotFound(req.listSelector)))
            /\ UNCHANGED <<count, i, fi, data>>
       ELSE /\ count' = Cardinality(Items)
            /\ i' = 1 /\ fi' = 1 /\ data' = <<>>
            /\ pc' = "fields"
            /\ UNCHANGED NodeVars
    /\ UNCHANGED <<EnvVars, EngineVars, stack, ret, fetchLog, browsers>>

ExecuteCallField ==
    /\ impl = "node" /\ pc = "fields" /\ stack = <<>> /\ ret.k = "none"
    /\ fi <= Len(req.fields)
    /\ stack' = <<Frame(eq(TopPage, Items, i), req.fields[fi], req.url, 1)>>
    /\ UNCHANGED <<EnvVars, NodeVars, EngineVars, pc, count, i, fi, data, ret,
                   inflight, fetchLog, browsers>>

\* the value is stored; an exception is caught: with continueOnFail the field
\* is null, otherwise it is thrown again and reaches the outer catch
ExecuteFieldDone ==
    /\ impl = "node" /\ pc = "fields" /\ stack = <<>> /\ ret.k # "none"
    /\ ret' = None
    /\ IF ret.k = "return" \/ req.continueOnFail
       THEN /\ data' = ObjSet(data, req.fields[fi].name,
                              IF ret.k = "return" THEN ret.val ELSE Null)
            /\ fi' = fi + 1
            /\ UNCHANGED <<NodeVars, pc>>
       ELSE /\ Caught(outerCatch(ret.msg))
            /\ UNCHANGED <<data, fi>>
    /\ UNCHANGED <<EnvVars, EngineVars, count, i, stack, inflight, fetchLog,
                   browsers>>

\* returnData.push({json: itemData, pairedItem}), the next list item, and
\* after the last one the next input item
ExecutePushRecord ==
    /\ impl = "node" /\ pc = "fields" /\ stack = <<>> /\ ret.k = "none"
    /\ fi > Len(req.fields)
    /\ returnData' = Append(returnData, [json |-> data, pairedItem |-> itemIndex])
    /\ fi' = 1 /\ data' = <<>>
    /\ IF i + 1 <= count
       THEN /\ i' = i + 1
            /\ UNCHANGED <<pc, itemIndex>>
       ELSE /\ i' = 1
            /\ itemIndex' = itemIndex + 1
            /\ pc' = IF itemIndex + 1 <= req.inputItemCount THEN "start" ELSE "done"
    /\ UNCHANGED <<EnvVars, EngineVars, raised, count, stack, ret, inflight,
                   fetchLog, browsers>>

\* what execute hands to the workflow: nothing when it throws
Output == IF raised.k = "error" THEN <<>> ELSE returnData

-----------------------------------------------------------------------------
(* Requests *)

MaxCap == 4

EngineReq(url, listSelector, fields, cookie, maxItems, useBrowser, waitSelector) ==
    [url |-> url, listSelector |-> listSelector, fields |-> fields,
     cookie |-> cookie, userAgent |-> Undefined, maxItems |-> maxItems,
     useBrowser |-> useBrowser, waitSelector |-> waitSelector,
     continueOnFail |-> FALSE, inputItemCount |-> 1]

MaxItemsValues == {NoNum} \cup {Num(n) : n \in -1 .. MaxCap}

EngineRequests ==
    {EngineReq(u, ls, <<Title, Link>>, <<>>, NoNum, b, w) :
        u \in {<<>>, ListUrl}, ls \in {"", ".nope", ".item"}, b \in BOOLEAN,
        w \in {"", ".item"}}
    \cup
    {EngineReq(ListUrl, ".item", fs, c, mi, b, "") :
        fs \in Schemas, c \in {<<>>, <<"sid=1">>}, mi \in {NoNum, Num(2)},
        b \in BOOLEAN}
    \cup
    {EngineReq(ListUrl, ls, <<Title, Detail>>, <<>>, mi, FALSE, "") :
        ls \in {".item", "a"}, mi \in MaxItemsValues}
    \cup
    {[EngineReq(ListUrl, ".item", <<Title, Detail>>, c, NoNum, FALSE, "")
         EXCEPT !.userAgent = Str(<<"UA/1">>)] : c \in {<<>>, <<"sid=1">>}}
    \cup
    {EngineReq(ListUrl, ".item", <<Title, Loop>>, <<>>, NoNum, b, "") :
        b \in BOOLEAN}

MaxInputs == 2

NodeReq(url, listSelector, fields, cookie, continueOnFail, inputItemCount) ==
    [url |-> url, listSelector |-> listSelector, fields |-> fields,
     cookie |-> cookie, userAgent |-> Undefined, maxItems |-> NoNum,
     useBrowser |-> FALSE, waitSelector |-> "",
     continueOnFail |-> continueOnFail, inputItemCount |-> inputItemCount]

NodeNav(name, selector, firstJump, secondJump, thirdJump) ==
    Nav(name, selector, LevelJumps(firstJump, secondJump, thirdJump))
LevelJump(clickSelector, targetSelector, fields) ==
    Jump(clickSelector, targetSelector, <<>>, fields)

NodeHop3 == NodeNav("hop3", ".card", NoJump, NoJump,
                    LevelJump(".next", "", <<Body, Meta>>))
NodeHop2 == NodeNav("hop2", ".card", NoJump,
                    LevelJump(".next", "", <<Body, NodeHop3, Meta>>), NoJump)
NodeHop1 == NodeNav("hop1", ".card",
                    LevelJump(".link", "", <<Body, NodeHop2, Meta>>), NoJump, NoJump)
NodeLeaf2 == NodeNav("leaf2", ".card", NoJump,
                     LevelJump(".next", ".body", <<>>), NoJump)
NodeTop1 == NodeNav("top1", ".card",
                    LevelJump(".link", "", <<Body, NodeLeaf2, Ghost, Meta>>),
                    NoJump, NoJump)
NodeDetail == NodeNav("detail", ".card", LevelJump(".link", ".body", <<>>),
                      NoJump, NoJump)
NodeNoTarget == NodeNav("notarget", ".card", LevelJump(".link", ".ghost", <<Body>>),
                        NoJump, NoJump)
NodeNoLevel == NodeNav("nolevel", ".card", NoJump,
                       LevelJump(".link", "", <<>>), NoJump)

NodeSchemas ==
    { <<Title, Link>>,
      <<Title, Ghost, Link>>,
      <<Title, NodeDetail, Link>>,
      <<NodeNoLevel, NodeNoTarget, Title>>,
      <<Title, NodeTop1, Link>>,
      <<Title, NodeHop1, Link>> }

NodeRequests ==
    {NodeReq(u, ls, <<Title, Link>>, <<>>, cf, n) :
        u \in {<<>>, ListUrl}, ls \in {"", ".nope", ".item"}, cf \in BOOLEAN,
        n \in 1 .. MaxInputs}
    \cup
    {NodeReq(ListUrl, ".item", fs, c, cf, 1) :
        fs \in NodeSchemas, c \in {<<>>, <<"sid=1">>}, cf \in BOOLEAN}

MaxCalls == 2

\* crawl has returned and the caller calls it again with the same options,
\* every URL answering as before: the locals of the call are new
CrawlAgain ==
    /\ impl = "engine" /\ pc = "done"
    /\ Len(calls) + 1 < MaxCalls
    /\ calls' = Append(calls, result)
    /\ pc' = "start"
    /\ count' = 0 /\ i' = 1 /\ fi' = 1 /\ data' = <<>>
    /\ fetchLog' = <<>>
    /\ UNCHANGED <<impl, req, down, NodeVars, result, stack, ret, inflight,
                   browsers>>

DownSets == SUBSET {"list", "d1", "d2", "e1", "f1"}

Init ==
    /\ impl \in {"engine", "node"}
    /\ req \in IF impl = "engine" THEN EngineRequests ELSE NodeRequests
    /\ down \in DownSets
    /\ calls = <<>>
    /\ pc = "start"
    /\ result = [success |-> TRUE, data |-> <<>>, errors |-> <<>>]
    /\ returnData = <<>>
    /\ raised = None
    /\ itemIndex = 1
    /\ count = 0 /\ i = 1 /\ fi = 1 /\ data = <<>>
    /\ stack = <<>>
    /\ ret = None
    /\ inflight = {}
    /\ fetchLog = <<>>
    /\ browsers = 0

Next ==
    \/ CrawlStart
    \/ CrawlTopDone
    \/ CrawlCallField
    \/ CrawlFieldDone
    \/ CrawlPushRecord
    \/ CrawlAgain
    \/ ExtractFieldEnter
    \/ ExtractFieldResume
    \/ ExtractFieldCallChild
    \/ ExtractFieldChildDone
    \/ ExtractFieldReturnChildren
    \/ ExecuteItem
    \/ ExecuteTopDone
    \/ ExecuteCallField
    \/ ExecuteFieldDone
    \/ ExecutePushRecord
    \/ NodeExtractFieldEnter
    \/ NodeExtractFieldResume
    \/ NodeExtractFieldCallChild
    \/ NodeExtractFieldChildDone
    \/ NodeExtractFieldReturnChildren

Spec == Init /\ [][Next]_vars

-----------------------------------------------------------------------------
(* The pure functions, called on their own: the link resolver and the
   field extractor applied to an element of a document *)

Elements == {El("links", n) : n \in DOMAIN Pages["links"]}
               \cup {El("list", n) : n \in DOMAIN Pages["list"]}
ClickSelectors == {"", ".btn", ".nope", ".pop", ".go", ".hid"}
WaitSelectors == {"", ".body", ".nope"}
Types == {"text", "html", "attribute"}
Attributes == {"", "href", "data-x", "data-id"}

\* the arguments of one call, held as the activation they come from
Arguments ==
    {Plain("v", "", t, a) : t \in Types, a \in Attributes}
        \cup {Nav("n", "", Jump(cs, w, <<>>, <<>>)) :
                cs \in ClickSelectors, w \in WaitSelectors}

\* the documents that fail to load during a call
PureDown == {{}, {"d2"}, {"links"}}

PureInit ==
    /\ impl \in {"engine", "node"}
    /\ req = EngineReq(ListUrl, ".item", <<Title>>, <<>>, NoNum, FALSE, "")
    /\ down \in PureDown
    /\ calls = <<>>
    /\ pc = "call"
    /\ result = [success |-> TRUE, data |-> <<>>, errors |-> <<>>]
    /\ returnData = <<>>
    /\ raised = None
    /\ itemIndex = 1
    /\ count = 0 /\ i = 1 /\ fi = 1 /\ data = <<>>
    /\ stack \in {<<Frame(e, f, AbsUrl(e.page), 1)>> : e \in Elements, f \in Arguments}
    /\ ret = None
    /\ inflight = {}
    /\ fetchLog = <<>>
    /\ browsers = 0

Called(c, open) ==
    /\ pc = "call"
    /\ pc' = "done"
    /\ ret' = c
    /\ browsers' = open
    /\ UNCHANGED <<impl, req, down, calls, result, returnData, raised, itemIndex,
                   count, i, fi, data, stack, inflight, fetchLog>>

FindClickableLink ==
    /\ impl = "engine" /\ Top.field.isJump
    /\ Called(Return(findClickableLink(Top.el, Top.field.jumpConfig.clickSelector),
                     "findClickableLink"), browsers)

ExtractUrlFromElement ==
    /\ impl = "engine" /\ Top.field.isJump
    /\ Called(Return(extractUrlFromElement(Top.el), "extractUrlFromElement"),
              browsers)

ExtractValue ==
    /\ ~Top.field.isJump
    /\ Called(Return(IF impl = "engine"
                     THEN extractValue(Top.el, Top.field.type, Top.field.attribute)
                     ELSE SmartCrawler_extractValue(Top.el, Top.field.type,
                                                    Top.field.attribute),
                     "extractValue"), browsers)

\* the completion of a fetch: the document, or the exception
Fetched(r, at) == IF r.ok THEN Return(Str(<<r.page>>), at) ELSE Throw(r.msg, at)

\* clickAndGetHtml on the document of the element; the browser it launched
\* is closed when it completes
ClickedAndGot(r) ==
    Called(Fetched(r, "clickAndGetHtml"), closeBrowser(browsers + 1, r))

ClickAndGetHtml ==
    /\ impl = "engine" /\ Top.field.isJump
    /\ ClickedAndGot(clickAndGetHtml(Top.baseUrl,
                                     Top.field.jumpConfig.clickSelector,
                                     Top.field.jumpConfig.targetSelector))

PureNext ==
    \/ FindClickableLink
    \/ ExtractUrlFromElement
    \/ ExtractValue
    \/ ClickAndGetHtml

PureSpec == PureInit /\ [][PureNext]_vars

-----------------------------------------------------------------------------
(* Properties *)

Mentions(msg, tok) == \E k \in DOMAIN msg : msg[k] = tok
FieldNames(fs) == [j \in DOMAIN fs |-> fs[j].name]
Last(q) == q[Len(q)]

\* the top-level document was fetched
TopFetched ==
    IF impl = "engine" THEN topOutcome.ok
    ELSE validate.ok /\ axiosGet(req.url).ok

\* the k-th match of the list selector, counted in document order
KthMatch(k) ==
    CHOOSE m \in Items : Cardinality({x \in Items : x < m}) = k - 1

\* an exception is pending in the activation that encloses the one it left
PendingInParent == ret.k = "throw" /\ stack # <<>>

\* the enclosing activation stays and holds null for the child that failed
ChildAloneIsNull ==
    /\ Len(stack') = Len(stack)
    /\ ObjHas(stack'[Len(stack)].subData, ret.name)
    /\ ObjGet(stack'[Len(stack)].subData, ret.name) = Null

\* C1: In CrawlerEngine.crawl a field evaluated at depth 4 alone resolves to
\* null: when its depth-exceeded exception is pending, the enclosing
\* navigation field stays active and stores null for that child, so that the
\* siblings at the levels 1 to 3 keep their values.
C1_DepthExceededOnlyThatField ==
    [][(impl = "engine" /\ PendingInParent /\ ret.at = "depth" /\ ret.level = 4)
        => ChildAloneIsNull]_vars

\* C2: In CrawlerEngine.crawl an exception that reaches a top-level field is
\* caught: the field is null in the record, exactly one message is appended
\* and it contains the name of the field, success and the records so far are
\* untouched, and the crawl goes on with the next field of the same item;
\* every record that is appended has all the declared fields.
C2_FieldFailureIsCaught ==
    [][/\ (impl = "engine" /\ pc = "fields" /\ stack = <<>> /\ ret.k = "throw")
          => /\ ObjHas(data', req.fields[fi].name)
             /\ ObjGet(data', req.fields[fi].name) = Null
             /\ Len(result'.errors) = Len(result.errors) + 1
             /\ SubSeq(result'.errors, 1, Len(result.errors)) = result.errors
             /\ Mentions(Last(result'.errors), req.fields[fi].name)
             /\ result'.data = result.data
             /\ result'.success = result.success
             /\ pc' = "fields" /\ i' = i /\ fi' = fi + 1
       /\ (impl = "engine" /\ Len(result'.data) > Len(result.data))
          => /\ result'.data = Append(result.data, data)
             /\ ObjKeys(data) = FieldNames(req.fields)]_vars

C2_Witness ==
    /\ impl = "engine" /\ pc = "done"
    /\ Len(result.data) = 3
    /\ \E k \in DOMAIN result.errors : Mentions(result.errors[k], "detail")
    /\ ObjKeys(result.data[1]) = <<"title", "detail", "link">>
    /\ ObjGet(result.data[1], "detail") = Null
    /\ ObjGet(result.data[1], "link") # Null

\* C3: When the fetch of a navigation hop fails for a child field, only that
\* child resolves to null: the enclosing navigation field stays active and
\* keeps its mapping.
C3_HopFailureOnlyThatField ==
    [][(impl = "engine" /\ PendingInParent /\ ret.at = "fetch")
        => ChildAloneIsNull]_vars

\* C4: In CrawlerEngine.crawl, once the top-level document is fetched and the
\* list selector has matched, success is true in every later state, whatever
\* number of field errors is recorded.
C4_SuccessStaysTrue ==
    (impl = "engine" /\ pc \in {"fields", "done"} /\ TopFetched /\ Items # {})
        => result.success

C4_Witness ==
    /\ impl = "engine" /\ pc = "done" /\ TopFetched /\ Items # {}
    /\ Len(result.errors) >= 2
    /\ \E k \in DOMAIN result.errors : Mentions(result.errors[k], "max 3 jumps")
    /\ \E k \in DOMAIN result.errors : Mentions(result.errors[k], "Request failed")

\* C5 as claimed: for every number N passed as maxItems the result has at
\* most N records and at most as many as the list selector matches.
C5_AtMostMaxItems ==
    (impl = "engine" /\ pc = "done" /\ req.maxItems.k = "num")
        => /\ Len(result.data) <= req.maxItems.n
           /\ Len(result.data) <= Cardinality(Items)

\* C5 amended: for every positive integer N passed as maxItems the result has
\* at most N records and at most as many as the list selector matches.
C5_AtMostPositiveMaxItems ==
    (impl = "engine" /\ req.maxItems.k = "num" /\ req.maxItems.n >= 1)
        => /\ Len(result.data) <= req.maxItems.n
           /\ Len(result.data) <= Cardinality(Items)

C5_Witness ==
    /\ impl = "engine" /\ pc = "done"
    /\ req.maxItems = Num(2) /\ Cardinality(Items) = 3
    /\ Len(result.data) = 2

\* the records of execute for input item n: the items that are no {error}
IsErrorItem(it) == ObjKeys(it.json) = <<"error">>
RecordsOf(n) ==
    SelectSeq(returnData, LAMBDA it : it.pairedItem = n /\ ~IsErrorItem(it))
Records(n) ==
    IF impl = "engine" THEN result.data
    ELSE [k \in DOMAIN RecordsOf(n) |-> RecordsOf(n)[k].json]

\* record rec holds, in declared order, one entry per field of fs, and every
\* plain field is the value extracted from the k-th match of the list selector
BuiltFrom(rec, fs, k) ==
    /\ ObjKeys(rec) = FieldNames(fs)
    /\ \A j \in DOMAIN fs :
          ~fs[j].isJump =>
              rec[j].val = extractValue(find1(El(TopPage, KthMatch(k)), fs[j].selector),
                                        fs[j].type, fs[j].attribute)

\* C6: The i-th record is built from the i-th match of the list selector in
\* document order, and the fields of a record are resolved and stored in
\* declared order (the record under assembly holds the first fi - 1 fields),
\* whatever fields are navigational or fail, in crawl and in execute.
C6_OrderPreserved ==
    /\ \A n \in 1 .. MaxInputs : \A k \in DOMAIN Records(n) :
          BuiltFrom(Records(n)[k], req.fields, k)
    /\ pc = "fields" =>
          /\ Len(Records(itemIndex)) = i - 1
          /\ Len(data) = fi - 1
          /\ BuiltFrom(data, SubSeq(req.fields, 1, fi - 1), i)

C6_Witness ==
    /\ impl = "engine" /\ pc = "done" /\ Len(result.data) = 3
    /\ result.errors # <<>>
    /\ ObjKeys(result.data[1]) = <<"title", "hop1", "link">>
    /\ ObjGet(result.data[1], "title") = Str(<<"tA">>)
    /\ ObjGet(result.data[2], "title") = Str(<<"tB">>)
    /\ ObjGet(result.data[3], "title") = Str(<<"tC">>)
    /\ ObjGet(result.data[2], "hop1").k = "obj"

\* the activation on top is entered at a depth of 1 to 3 and its selector
\* matches nothing inside the element it is resolved against
MissingAtEntry ==
    /\ stack # <<>> /\ Top.phase = "enter"
    /\ Top.level \in 1 .. MaxJumps
    /\ find1(Top.el, Top.field.selector) = NoEl

\* C7: A field, plain or navigational, whose selector matches nothing inside
\* its parent element resolves to null at every depth from 1 to 3, in both
\* implementations: the activation returns null at once, no error is
\* recorded or raised, no fetch is issued, and null is what is stored under
\* the name of the field.
C7_MissingElementIsNull ==
    [][/\ MissingAtEntry
          => /\ ret'.k = "return" /\ ret'.val = Null
             /\ ret'.name = Top.field.name
             /\ stack' = Pop
             /\ fetchLog' = fetchLog /\ inflight' = inflight
             /\ result' = result /\ raised' = raised /\ returnData' = returnData
       /\ (ret.k = "return" /\ ret.at = "missing")
          => /\ fetchLog' = fetchLog
             /\ result'.errors = result.errors /\ raised' = raised
             /\ IF stack = <<>>
                THEN /\ ObjHas(data', ret.name)
                     /\ ObjGet(data', ret.name) = Null
                ELSE ChildAloneIsNull]_vars

C7_Witness ==
    /\ impl = "node" /\ ret.k = "return" /\ ret.at = "missing"
    /\ ret.level >= 2 /\ ret.val = Null
    /\ stack # <<>>
    /\ fetchLog # <<>>

\* C8 as claimed: when the list selector matches nothing in the fetched
\* top-level document, crawl ends with success false, no record and exactly
\* one error, which names the selector; execute raises an error that names
\* the selector and emits no item.
C8_ListNotFound ==
    (pc = "done" /\ TopFetched /\ Items = {})
        => IF impl = "engine"
           THEN /\ result.success = FALSE
                /\ result.data = <<>>
                /\ Len(result.errors) = 1
                /\ Mentions(result.errors[1], req.listSelector)
           ELSE /\ raised.k = "error"
                /\ Mentions(raised.msg, req.listSelector)
                /\ returnData = <<>>

\* C8 amended: crawl as claimed; execute raises the error that names the
\* selector, and emits nothing, when continueOnFail is off; when it is on
\* nothing is raised and each input item yields exactly one item {error},
\* whose message names the selector, and no record.
C8_ListNotFoundOrErrorItem ==
    (pc = "done" /\ TopFetched /\ Items = {})
        => IF impl = "engine"
           THEN /\ result.success = FALSE
                /\ result.data = <<>>
                /\ Len(result.errors) = 1
                /\ Mentions(result.errors[1], req.listSelector)
           ELSE IF ~req.continueOnFail
           THEN /\ raised.k = "error"
                /\ raised.itemIndex = 1
                /\ Mentions(raised.msg, req.listSelector)
                /\ returnData = <<>>
           ELSE /\ raised = None
                /\ Len(returnData) = req.inputItemCount
                /\ \A n \in DOMAIN returnData :
                      /\ IsErrorItem(returnData[n])
                      /\ returnData[n].pairedItem = n
                      /\ Mentions(returnData[n].json[1].val.s, req.listSelector)

C8_Witness ==
    /\ impl = "node" /\ pc = "done" /\ TopFetched /\ Items = {}
    /\ req.continueOnFail /\ req.inputItemCount = 2
    /\ Len(returnData) = 2

\* C9: When url or listSelector is empty, the operation fails with a
\* configuration error before any fetch is issued, in crawl and in execute:
\* no request ever leaves, and the run ends in failure with the message of
\* the empty parameter.
C9_EmptyConfigBeforeFetch ==
    (req.url = <<>> \/ req.listSelector = "")
        => /\ fetchLog = <<>>
           /\ pc = "done" =>
                 IF impl = "engine"
                 THEN /\ result.success = FALSE /\ result.data = <<>>
                      /\ Len(result.errors) = 1
                 ELSE \/ raised.k = "error"
                      \/ /\ returnData # <<>>
                         /\ \A n \in DOMAIN returnData : IsErrorItem(returnData[n])

\* C10: When the fetch of the top-level document fails, static or rendered,
\* crawl ends with success false, no record and the message of the failure
\* in errors; no field is ever extracted and no other fetch is issued.
C10_TopFetchFailure ==
    (impl = "engine" /\ ~TopFetched)
        => /\ stack = <<>> /\ data = <<>> /\ result.data = <<>>
           /\ pc # "fields"
           /\ Len(fetchLog) <= 1
           /\ pc = "done" =>
                 /\ result.success = FALSE
                 /\ result.errors = <<topOutcome.msg>>
                 /\ Len(fetchLog) = 1

C10_Witness ==
    /\ impl = "engine" /\ pc = "done" /\ ~TopFetched
    /\ req.useBrowser /\ req.url # <<>> /\ req.listSelector = ".item"
    /\ "list" \in down
    /\ result.errors # <<>>

\* C11: CrawlerEngine.crawl never lets a failure escape: whatever the
\* request and the outcome of every fetch, nothing is raised; an exception
\* that has left extractField is pending only inside the loop whose catch
\* takes it, a completion that is pending inside extractField is received by
\* the child loop of the caller, and crawl is done with no activation and no
\* exception left and with errors recorded whenever success is false.
C11_CrawlNeverRaises ==
    impl = "engine"
        => /\ raised = None
           /\ (ret.k = "throw" /\ stack = <<>>) => pc = "fields"
           /\ (ret.k # "none" /\ stack # <<>>) =>
                 (pc = "fields" /\ Top.phase = "children")
           /\ pc = "done" =>
                 /\ stack = <<>> /\ ret.k = "none" /\ inflight = {}
                 /\ result.success \in BOOLEAN
                 /\ ~result.success => (result.errors # <<>> /\ result.data = <<>>)

C11_Witness ==
    /\ impl = "engine" /\ pc = "done" /\ raised = None
    /\ "list" \notin down /\ down # {}
    /\ result.success /\ Len(result.data) = 3
    /\ \E k \in DOMAIN result.errors : Mentions(result.errors[k], "Request failed")

\* a rendered fetch is in flight: the request issued last is a rendered
\* navigation or a click and it has not completed
RenderedInFlight ==
    /\ inflight # {}
    /\ fetchLog # <<>>
    /\ Last(fetchLog).kind \in {"render", "click"}

\* C12: Every browser launched by getRenderedHtml or clickAndGetHtml is
\* closed before that call returns or raises, on every exit path: a browser
\* is open exactly while a rendered fetch is in flight, so that at most one
\* is open at any time, none is open while a completion of extractField is
\* pending, and none is open when crawl is done.
C12_BrowserAlwaysClosed ==
    /\ browsers \in {0, 1}
    /\ browsers = 1 <=> RenderedInFlight
    /\ ret.k # "none" => browsers = 0
    /\ pc = "done" => browsers = 0

C12_Witness ==
    /\ impl = "engine" /\ req.useBrowser
    /\ ret.k = "throw" /\ ret.at = "fetch"
    /\ Len(fetchLog) >= 2 /\ Last(fetchLog).kind = "click"
    /\ browsers = 0

IndexOf(fs, name) == CHOOSE j \in DOMAIN fs : fs[j].name = name

\* the child fields of a field, as the objects its child list refers to
FieldsOf(field) ==
    [j \in DOMAIN field.jumpConfig.fields |->
        Deref([field |-> field], field.jumpConfig.fields[j])]

RECURSIVE PathOf(_, _)
\* the indices, level by level, of the fields named along a trail of crawl
PathOf(fs, names) ==
    IF names = <<>> THEN <<>>
    ELSE IF Len(names) = 1 THEN <<IndexOf(fs, names[1])>>
    ELSE <<IndexOf(fs, names[1])>>
            \o PathOf(FieldsOf(fs[IndexOf(fs, names[1])]), Tail(names))

\* the place of a request of crawl: the list item in document order, the
\* declared index of the top-level field, then the indices of the child fields
PlaceOf(rec) ==
    IF rec.trail = NoTrail THEN <<>>
    ELSE <<rec.trail.item>> \o PathOf(req.fields, rec.trail.names)

\* place p comes before place q: item order, then declared field order, a
\* field before its child fields
Before(p, q) ==
    \E k \in 1 .. Len(q) :
        /\ k <= Len(p) + 1
        /\ \A j \in 1 .. (k - 1) : p[j] = q[j]
        /\ k = Len(p) + 1 \/ p[k] < q[k]

\* C13: Within one crawl at most one fetch is in flight at any moment, only
\* the request issued last can be in flight, and the requests are issued in
\* item order, then declared field order, then depth-first through the child
\* fields.
C13_OneFetchInOrder ==
    impl = "engine"
        => /\ Cardinality(inflight) <= 1
           /\ inflight \subseteq {Len(fetchLog)}
           /\ \A a, b \in DOMAIN fetchLog :
                 a < b => Before(PlaceOf(fetchLog[a]), PlaceOf(fetchLog[b]))

C13_Witness ==
    /\ impl = "engine" /\ pc = "done"
    /\ \E a \in DOMAIN fetchLog : fetchLog[a].trail.names = <<"top1", "mid2", "leaf3">>
    /\ \E a \in DOMAIN fetchLog : fetchLog[a].trail.names = <<"top1", "peek">>
    /\ Len(fetchLog) >= 6

LinkOf(f) ==
    findClickableLink(find1(f.el, f.field.selector), f.field.jumpConfig.clickSelector)

\* an activation of the engine is entered, at a depth of 1 to 3, for a
\* navigation field whose anchor element exists
NavAtEntry ==
    /\ impl = "engine" /\ stack # <<>> /\ Top.phase = "enter"
    /\ Top.level \in 1 .. MaxJumps
    /\ Top.field.isJump /\ Top.field.jumpConfig.present
    /\ find1(Top.el, Top.field.selector) # NoEl

IsOpaqueId(href) == Truthy(href) /\ startsWith(href.s, "__data_id__:")

\* the activation returns null at once: no request, no click, no error
NullWithoutFetch ==
    /\ ret'.k = "return" /\ ret'.val = Null
    /\ stack' = Pop
    /\ fetchLog' = fetchLog /\ inflight' = inflight /\ browsers' = browsers
    /\ result' = result

\* C15: When the link resolver yields an opaque identifier (data-id,
\* data-item-id, data-model-id) and the navigation has no urlTemplate, the
\* field resolves to null: no error is recorded, no fetch is issued for it
\* and success is not changed.
C15_OpaqueIdWithoutTemplate ==
    [][(/\ NavAtEntry
        /\ IsOpaqueId(LinkOf(Top))
        /\ Top.field.jumpConfig.urlTemplate = <<>>)
        => NullWithoutFetch]_vars

\* C16: Every static GET issued, for the top-level document and for every
\* navigation hop, in crawl and in execute, carries a User-Agent header, and
\* carries a Cookie header exactly when a non-empty cookie string was
\* supplied, its value being that string.
C16_HeadersOfEveryGet ==
    \A n \in DOMAIN fetchLog :
        fetchLog[n].kind = "get" =>
            /\ ObjHas(fetchLog[n].headers, "User-Agent")
            /\ ObjHas(fetchLog[n].headers, "Cookie") <=> req.cookie # <<>>
            /\ req.cookie # <<>> => ObjGet(fetchLog[n].headers, "Cookie") = req.cookie

C16_Witness ==
    /\ req.cookie = <<"sid=1">>
    /\ \E n \in DOMAIN fetchLog :
          /\ fetchLog[n].kind = "get" /\ fetchLog[n].level = 0
          /\ ObjGet(fetchLog[n].headers, "Cookie") = <<"sid=1">>
    /\ \E n \in DOMAIN fetchLog :
          /\ fetchLog[n].kind = "get" /\ fetchLog[n].level = 3
          /\ ObjGet(fetchLog[n].headers, "Cookie") = <<"sid=1">>

\* C17: No chain of nested navigation fields causes more than 3 navigation
\* fetches beyond the top-level document, in crawl and in execute: a request
\* is issued by an activation at a depth of at most 3, whose open
\* activations are the hops of its path, and no activation is ever entered
\* below depth 4.
C17_AtMostThreeHops ==
    /\ \A n \in DOMAIN fetchLog :
          /\ fetchLog[n].level <= MaxJumps
          /\ Len(fetchLog[n].trail.names) = fetchLog[n].level
    /\ Len(stack) <= MaxJumps + 1
    /\ \A j \in DOMAIN stack : stack[j].level = j

C17_Witness ==
    /\ ret.k = "throw" /\ ret.at = "depth" /\ ret.level = MaxJumps + 1
    /\ \E n \in DOMAIN fetchLog :
          fetchLog[n].level = MaxJumps /\ fetchLog[n].trail.names = <<"hop1", "hop2", "hop3">>

\* C18: Every field-level error recorded in errors (a fetch failure or a
\* depth-exceeded failure during navigation) carries the name of the field
\* whose resolution failed, also when that field is a child field at nesting
\* level 2 or deeper: the message appended for a pending exception names the
\* field of the activation that threw it.
C18_ErrorNamesFailedField ==
    [][(impl = "engine" /\ pc = "fields" /\ stack = <<>> /\ ret.k = "throw"
        /\ ret.at \in {"fetch", "depth"})
        => /\ Len(result'.errors) = Len(result.errors) + 1
           /\ Mentions(Last(result'.errors), ret.name)]_vars

\* C19: For a navigation field whose anchor element exists, when the link
\* resolver yields nothing for that anchor element the field resolves to null
\* and no document is acquired for it (no GET, no rendered navigation, no
\* click), in static and in rendered fetch mode alike.
C19_NoLinkNoFetch ==
    [][(NavAtEntry /\ ~Truthy(LinkOf(Top))) => NullWithoutFetch]_vars

\* the child fields declared for the navigation of activation f
ChildrenOf(f) ==
    IF impl = "engine" THEN f.field.jumpConfig.fields ELSE JumpOf(f).fields

\* C20: When a navigation field has child fields, each child field is
\* resolved exactly once, in declared order, with depth + 1, against the
\* target subtree of the newly acquired document and with the URL of that
\* document as its base URL, in both fetch modes and in both
\* implementations; the value of the field is the mapping from each child
\* name to its value.
C20_ChildrenInContext ==
    [][/\ (stack # <<>> /\ Len(stack') = Len(stack) + 1)
          => /\ Last(stack').level = Top.level + 1
             /\ Last(stack').phase = "enter"
             /\ Last(stack').el = Top.target
             /\ Last(stack').field = ChildrenOf(Top)[Len(Top.subData) + 1]
             /\ Top.target # NoEl
                   => PageKeyOf(Last(stack').baseUrl) = Top.target.page
       /\ (stack # <<>> /\ ret'.k = "return" /\ ret'.at = "children")
          => /\ ret'.val = Obj(Top.subData)
             /\ ObjKeys(Top.subData) = FieldNames(ChildrenOf(Top))]_vars

\* the outcome of the fetch the activation on top is waiting for
FetchedForTop ==
    IF impl = "engine" THEN jumpOutcome(Top) ELSE axiosGet(Top.resolved)

TargetSelectorOf(f) ==
    IF impl = "engine" THEN f.field.jumpConfig.targetSelector
    ELSE JumpOf(f).targetSelector

\* the hop of the activation on top has fetched a document
HopFetched == stack # <<>> /\ Top.phase = "await" /\ FetchedForTop.ok

\* C21: After a navigation hop, when targetSelector is configured and matches
\* nothing in the new document, the navigation field resolves to null (not
\* to an empty string, not to a mapping of nulls), no error is recorded and
\* no child field is evaluated; when targetSelector is absent the body of the
\* document is the target; in both implementations.
C21_NoTargetIsNull ==
    [][HopFetched =>
        /\ (/\ TargetSelectorOf(Top) # ""
            /\ SelectAll(FetchedForTop.page, TargetSelectorOf(Top)) = {})
           => /\ ret'.k = "return" /\ ret'.val = Null
              /\ stack' = Pop
              /\ result' = result /\ raised' = raised /\ returnData' = returnData
        /\ (TargetSelectorOf(Top) = "" /\ ChildrenOf(Top) # <<>>)
           => /\ Len(stack') = Len(stack)
              /\ Last(stack').phase = "children"
              /\ Last(stack').target = El(FetchedForTop.page, 1)
              /\ "body" \in NodeOf(Last(stack').target).sels]_vars

\* the call of a pure function that has returned
Returned(at) == pc = "done" /\ ret.k = "return" /\ ret.at = at

RECURSIVE Ancestor(_, _)
\* the k-th container above an element, the parent being the first
Ancestor(el, k) == IF k = 0 THEN el ELSE Ancestor(parent(el), k - 1)

\* the anchors that are the element or enclose it; the nearest is the last
\* of them in document order
AnchorsAbove(el) ==
    {m \in DOMAIN Pages[el.page] :
        /\ "a" \in Pages[el.page][m].sels
        /\ (m = el.node \/ IsUnder(Pages[el.page], el.node, m))}

\* the candidates of a container: its first anchor, then the first descendant
\* with an onclick, data-href or data-url attribute
InContainer(c) ==
    IF c = NoEl THEN <<>>
    ELSE <<find1(c, "a"),
           first(c.page, {m \in DOMAIN Pages[c.page] :
                            /\ IsUnder(Pages[c.page], m, c.node)
                            /\ \E a \in {"onclick", "data-href", "data-url"} :
                                   a \in DOMAIN Pages[c.page][m].attrs})>>

\* the candidates of the five steps, in the order of the steps
Candidates(el, clickSelector) ==
    <<IF clickSelector = "" THEN NoEl ELSE find1(el, clickSelector),
      el,
      find1(el, "a"),
      IF AnchorsAbove(el) = {} THEN NoEl ELSE El(el.page, Max(AnchorsAbove(el)))>>
    \o InContainer(Ancestor(el, 1)) \o InContainer(Ancestor(el, 2))
    \o InContainer(Ancestor(el, 3))

Yield(c) == IF c = NoEl THEN Null ELSE extractUrlFromElement(c)
Yielding(cands) == {j \in DOMAIN cands : Truthy(Yield(cands[j]))}
FirstYield(cands) ==
    IF Yielding(cands) = {} THEN Null ELSE Yield(cands[Min(Yielding(cands))])

ClickSelectorOf(f) == f.field.jumpConfig.clickSelector

\* C22: findClickableLink returns what the first of its five steps, taken in
\* their fixed order, yields: the click selector's first match inside the
\* element, the element, its first anchor, the nearest enclosing anchor, then
\* up to three containers, nearest first, in each the first anchor and then
\* the first element with a handler or a data link. A click selector that
\* matches nothing or whose match yields nothing falls through to the later
\* steps, and the result is null only when no step yields.
C22_FirstStepThatYields ==
    Returned("findClickableLink") =>
        /\ ret.val = FirstYield(Candidates(Top.el, ClickSelectorOf(Top)))
        /\ (ret.val = Null) = (Yielding(Candidates(Top.el, ClickSelectorOf(Top))) = {})

\* the click selector's match yields nothing and a later step yields
C22_Witness ==
    /\ Returned("findClickableLink")
    /\ ClickSelectorOf(Top) # ""
    /\ find1(Top.el, ClickSelectorOf(Top)) # NoEl
    /\ ~Truthy(Yield(find1(Top.el, ClickSelectorOf(Top))))
    /\ Truthy(ret.val)

\* the value of an attribute, empty when the element does not carry it
AttrOr(el, name) ==
    IF name \in DOMAIN NodeOf(el).attrs THEN NodeOf(el).attrs[name] ELSE <<>>

HrefQualifies(el) ==
    /\ AttrOr(el, "href") # <<>>
    /\ Head(AttrOr(el, "href")) \notin {"#", "javascript:"}

\* the data attributes, by their place in the fixed list, that hold an
\* absolute or root-relative value
DataQualifying(el) ==
    {j \in DOMAIN dataAttrs :
        /\ AttrOr(el, dataAttrs[j]) # <<>>
        /\ Head(AttrOr(el, dataAttrs[j])) \in {"/", "http"}}

HandlerUrl(el) ==
    IF onclickMatch(AttrOr(el, "onclick"), "location=") # <<>>
    THEN onclickMatch(AttrOr(el, "onclick"), "location=")
    ELSE onclickMatch(AttrOr(el, "onclick"), "window.open(")

idAttrs == <<"data-id", "data-item-id", "data-model-id">>
IdsPresent(el) == {j \in DOMAIN idAttrs : AttrOr(el, idAttrs[j]) # <<>>}

\* C23: extractUrlFromElement returns the first that qualifies of: the href,
\* unless it is a fragment or a javascript: pseudo-link; the data attributes
\* data-href, data-url, data-link, data-src, data-target-url, one that is
\* absolute or root-relative; the URL of the onclick handler; the
\* identifiers data-id, data-item-id, data-model-id, as an OpaqueId. A
\* rejected or missing earlier attribute does not hide a later one.
C23_FirstQualifyingAttribute ==
    Returned("extractUrlFromElement") =>
        ret.val =
            IF HrefQualifies(Top.el) THEN Str(AttrOr(Top.el, "href"))
            ELSE IF DataQualifying(Top.el) # {}
                 THEN Str(AttrOr(Top.el, dataAttrs[Min(DataQualifying(Top.el))]))
            ELSE IF HandlerUrl(Top.el) # <<>> THEN Str(HandlerUrl(Top.el))
            ELSE IF IdsPresent(Top.el) # {}
                 THEN Str(<<"__data_id__:">>
                          \o AttrOr(Top.el, idAttrs[Min(IdsPresent(Top.el))]))
            ELSE Null

\* an href that is rejected, on an element with a later attribute that
\* qualifies
C23_Witness ==
    /\ Returned("extractUrlFromElement")
    /\ AttrOr(Top.el, "href") # <<>>
    /\ ~HrefQualifies(Top.el)
    /\ Truthy(ret.val)

\* C24: for a plain field whose element exists, extractValue returns the
\* trimmed text, or null when it is empty (text); the inner markup, or null
\* when it is empty (html); the value of the named attribute whenever the
\* element carries it, and null when it does not or no name is configured
\* (attribute).
C24_ValueOfPlainField ==
    Returned("extractValue") =>
        ret.val =
            CASE Top.field.type = "text" ->
                    IF trim(text(Top.el)) = <<>> THEN Null
                    ELSE Str(trim(text(Top.el)))
              [] Top.field.type = "html" ->
                    IF html(Top.el) = Str(<<>>) THEN Null ELSE html(Top.el)
              [] Top.field.type = "attribute" ->
                    IF /\ Top.field.attribute # ""
                       /\ Top.field.attribute \in DOMAIN NodeOf(Top.el).attrs
                    THEN Str(NodeOf(Top.el).attrs[Top.field.attribute])
                    ELSE Null

\* the same, the attribute's value being returned when it is not empty
C24_ExceptEmptyAttribute ==
    Returned("extractValue") =>
        \/ /\ Top.field.type = "attribute"
           /\ Top.field.attribute \in DOMAIN NodeOf(Top.el).attrs
           /\ NodeOf(Top.el).attrs[Top.field.attribute] = <<>>
           /\ ret.val = Null
        \/ C24_ValueOfPlainField

\* the call of clickAndGetHtml that has completed, and what it was given
Clicked == pc = "done" /\ ret.at = "clickAndGetHtml"
ClickedPage == PageKeyOf(Top.baseUrl)
ClickedOn ==
    first(ClickedPage, SelectAll(ClickedPage, ClickSelectorOf(Top)))
WaitSelectorOf(f) == f.field.jumpConfig.targetSelector

\* the four steps whose failure the function does not catch
GotoFails == ~Served(Top.baseUrl)
ClickSelectorFails == ClickedOn = NoEl
ClickFails == "hidden" \in DOMAIN NodeOf(ClickedOn).attrs
\* the click leads nowhere that loads: waitForNavigation times out
NavigationFails ==
    \/ "href" \notin DOMAIN NodeOf(ClickedOn).attrs
    \/ ~Served(resolveUrl(Top.baseUrl, NodeOf(ClickedOn).attrs["href"]))
ShownAfterClick ==
    IF NavigationFails THEN ClickedPage
    ELSE PageKeyOf(resolveUrl(Top.baseUrl, NodeOf(ClickedOn).attrs["href"]))
WaitSelectorFails ==
    WaitSelectorOf(Top) # "" /\ SelectAll(ShownAfterClick, WaitSelectorOf(Top)) = {}

\* C25: clickAndGetHtml fails exactly when the initial navigation, the wait
\* for the click selector, the click or the wait for the configured wait
\* selector fails; a navigation that fails or times out after the click does
\* not fail the fetch, which returns the document in the state it is in.
C25_OnlyNavigationIsTolerated ==
    Clicked =>
        /\ (ret.k = "throw") =
              (\/ GotoFails
               \/ ClickSelectorFails
               \/ ClickFails
               \/ WaitSelectorFails)
        /\ ret.k = "return" => ret.val = Str(<<ShownAfterClick>>)
        /\ browsers = 0

\* the navigation after the click fails and the fetch returns the document
\* that was clicked on
C25_Witness ==
    /\ Clicked
    /\ ~GotoFails /\ ~ClickSelectorFails /\ ~ClickFails
    /\ NavigationFails
    /\ "href" \in DOMAIN NodeOf(ClickedOn).attrs
    /\ PageKeyOf(resolveUrl(Top.baseUrl, NodeOf(ClickedOn).attrs["href"])) \in down
    /\ ret.k = "return" /\ ret.val = Str(<<ClickedPage>>)

\* the number of records crawl is to return for M matches of the list
\* selector: the smaller of M and a positive maxItems, M without maxItems
RecordsDue(M, maxItems) ==
    IF maxItems.k = "num" /\ maxItems.n < M THEN maxItems.n ELSE M

\* C26: when the top-level fetch succeeds and the list selector matches
\* M >= 1 elements, crawl returns exactly min(M, maxItems) records for a
\* positive integer maxItems and exactly M without maxItems; every record
\* has exactly one entry for each declared top-level field, null for a field
\* that is missing or failed; no record is dropped, while the records are
\* assembled or after.
C26_ExactlyTheRecordsDue ==
    (/\ impl = "engine" /\ TopFetched /\ Items # {}
     /\ (req.maxItems.k = "num" => req.maxItems.n >= 1))
        => /\ pc = "done" =>
                Len(result.data) = RecordsDue(Cardinality(Items), req.maxItems)
           /\ pc = "fields" =>
                /\ Len(result.data) = i - 1
                /\ i <= RecordsDue(Cardinality(Items), req.maxItems)
           /\ \A k \in DOMAIN result.data :
                /\ ObjKeys(result.data[k]) = FieldNames(req.fields)
                /\ Len(result.data[k]) = Len(req.fields)

\* a crawl capped by maxItems in which fields failed: it is complete and
\* holds null for a field that failed
C26_Witness ==
    /\ impl = "engine" /\ pc = "done" /\ TopFetched
    /\ Cardinality(Items) = 3 /\ req.maxItems = Num(2)
    /\ Len(result.data) = 2
    /\ result.errors # <<>>
    /\ \E k \in DOMAIN result.data : \E j \in DOMAIN result.data[k] :
          result.data[k][j].val = Null

\* the failures of execute: of an input item before its records, of a
\* top-level field, of a child field of a navigation field
InputFails ==
    /\ impl = "node"
    /\ \/ pc = "start" /\ ~validate.ok
       \/ pc = "top" /\ (~axiosGet(req.url).ok \/ Items = {})
InputMsg ==
    IF pc = "start" THEN validate.msg
    ELSE IF ~axiosGet(req.url).ok THEN axiosGet(req.url).msg
    ELSE NodeListNotFound(req.listSelector)
FieldFails == impl = "node" /\ pc = "fields" /\ ret.k = "throw" /\ stack = <<>>
ChildFails == impl = "node" /\ pc = "fields" /\ ret.k = "throw" /\ stack # <<>>

Aborted == raised.k = "error" /\ pc = "done" /\ Output = <<>>

\* C27: execute with continueOnFail off: the first failure, of the
\* configuration, of the fetch, of the list or of a field at any depth,
\* aborts the execution with a raised error and no output, the records
\* already assembled included. With continueOnFail on: a field that fails
\* is null and nothing else changes; an input item that fails yields one
\* item {error: message} paired with it, and the next input item follows.
C27_ContinueOnFail ==
    /\ [](raised.k = "error" => (~req.continueOnFail /\ Aborted))
    /\ [](req.continueOnFail => raised = None)
    /\ [][/\ (~req.continueOnFail /\ (InputFails \/ FieldFails))
             => /\ raised'.k = "error" /\ raised'.itemIndex = itemIndex
                /\ pc' = "done" /\ Output' = <<>>
          /\ (~req.continueOnFail /\ ChildFails)
             => ret' = ret /\ stack' = Pop /\ returnData' = returnData
          /\ (req.continueOnFail /\ FieldFails)
             => /\ data' = ObjSet(data, req.fields[fi].name, Null)
                /\ fi' = fi + 1 /\ i' = i /\ itemIndex' = itemIndex
                /\ pc' = pc /\ returnData' = returnData
          /\ (req.continueOnFail /\ ChildFails)
             => /\ Len(stack') = Len(stack)
                /\ SubSeq(stack', 1, Len(stack) - 1) = Pop
                /\ Last(stack').subData = ObjSet(Top.subData, ret.name, Null)
                /\ ret' = None
                /\ data' = data /\ pc' = pc /\ returnData' = returnData
          /\ (req.continueOnFail /\ InputFails)
             => /\ returnData' =
                     Append(returnData,
                            [json |-> <<[name |-> "error", val |-> Str(InputMsg)]>>,
                             pairedItem |-> itemIndex])
                /\ itemIndex' = itemIndex + 1
                /\ pc' = IF itemIndex < req.inputItemCount THEN "start" ELSE "done"
      ]_vars

\* continueOnFail is off and a field fails after a record was assembled:
\* the error is raised and the record is not part of any output
C27_Witness ==
    /\ impl = "node" /\ ~req.continueOnFail
    /\ Aborted
    /\ returnData # <<>>
    /\ raised.itemIndex = 1

RECURSIVE HopsDue(_, _, _)
\* the navigation fields among fs[j..] and below them, the schema being
\* followed through its references down to the level MaxJumps
HopsDue(fs, j, level) ==
    IF level > MaxJumps \/ j > Len(fs) THEN 0
    ELSE (IF fs[j].isJump THEN 1 + HopsDue(FieldsOf(fs[j]), 1, level + 1) ELSE 0)
         + HopsDue(fs, j + 1, level)

\* the requests issued so far for a list item
FetchesFor(item) == {a \in DOMAIN fetchLog : fetchLog[a].trail.item = item}

\* the progress of the activation at depth L, none being open there: its
\* phase, the child fields it has left, whether it is about to call one
FrameRank(L) ==
    IF Len(stack) < L THEN <<0, 0, 0>>
    ELSE <<CASE stack[L].phase = "enter" -> 3
             [] stack[L].phase = "await" -> 2
             [] OTHER -> 1,
           IF stack[L].phase = "children"
           THEN Len(stack[L].field.jumpConfig.fields) + 1 - stack[L].idx ELSE 0,
           IF stack[L].phase = "children" /\ Len(stack) = L /\ ret.k = "none"
           THEN 1 ELSE 0>>

\* what a call of crawl has left to do, the most significant first: the
\* part of crawl, the list items, the fields of the item, whether a field is
\* about to be called, then the activations of extractField by depth
Rank ==
    <<CASE pc = "start" -> 3 [] pc = "top" -> 2 [] pc = "fields" -> 1 [] OTHER -> 0,
      IF pc = "fields" THEN count + 1 - i ELSE 0,
      IF pc = "fields" THEN Len(req.fields) + 1 - fi ELSE 0,
      IF pc = "fields" /\ stack = <<>> /\ ret.k = "none" THEN 1 ELSE 0>>
    \o FrameRank(1) \o FrameRank(2) \o FrameRank(3) \o FrameRank(4)

\* p comes before q in the lexicographic order
Less(p, q) ==
    \E k \in DOMAIN q :
        /\ p[k] < q[k]
        /\ \A j \in 1 .. (k - 1) : p[j] = q[j]

\* a call of crawl that has not ended can take a step: the continuation of
\* crawl, or that of the activation on top, a fetch it awaits returning or
\* failing
Ready ==
    \/ ENABLED CrawlStart
    \/ ENABLED CrawlTopDone
    \/ ENABLED CrawlCallField
    \/ ENABLED CrawlFieldDone
    \/ ENABLED CrawlPushRecord
    \/ ENABLED ExtractFieldCallChild
    \/ ENABLED ExtractFieldChildDone
    \/ ENABLED ExtractFieldReturnChildren
    \/ (pc = "fields" /\ stack # <<>> /\ Top.phase = "enter" /\ ret.k = "none")
    \/ (pc = "fields" /\ stack # <<>> /\ Top.phase = "await")

\* C28: every call of crawl ends, each fetch returning or failing, also
\* for a schema in which a navigation field is one of its own child fields.
\* Until the call has ended a step is ready, and every step of the call
\* lowers a rank of natural numbers in lexicographic order, so that no call
\* runs for ever; the depth counter bounds the recursion: no more than
\* MaxJumps + 1 activations of extractField are ever open, the activation at
\* depth L being at level L, and for one list item no more requests are
\* issued than the schema, followed through its references, holds
\* navigation fields down to the level MaxJumps.
C28_CrawlTerminates ==
    /\ [](impl = "engine" =>
            /\ Len(stack) <= MaxJumps + 1
            /\ \A f \in DOMAIN stack : stack[f].level = f
            /\ \A item \in Items :
                  Cardinality(FetchesFor(item)) <= HopsDue(req.fields, 1, 1)
            /\ \A k \in DOMAIN Rank : Rank[k] \in Nat
            /\ pc # "done" => Ready)
    /\ [][(impl = "engine" /\ pc # "done") => Less(Rank', Rank)]_vars

\* the self-referential schema has been followed to the depth check: three
\* hops for the first list item, and the crawl has ended
C28_Witness ==
    /\ impl = "engine" /\ pc = "done"
    /\ req.fields = <<Title, Loop>>
    /\ Cardinality(FetchesFor(KthMatch(1))) = MaxJumps
    /\ \E k \in DOMAIN result.errors : Mentions(result.errors[k], "max 3 jumps")

====
